---- MODULE Spec2Model ----
(***************************************************************************)
(* Model of ccystl's raw-memory layer: construct / destroy, the six        *)
(* uninitialized_* bulk algorithms, and the degrading temporary buffer.    *)
(*                                                                         *)
(* A memory slot is a record [st, val]: st is "raw" (no object), "live"    *)
(* (holds a constructed object) or "moved" (holds a moved-from object,     *)
(* still destroyable).  Iterators over a region are slot indices.          *)
(***************************************************************************)
EXTENDS Integers, Sequences, FiniteSets, TLC

\* ------------------------------------------------------------------ bounds
MaxN == 3
MaxVal == 2
\* Position of the first destination slot (source positions start at 0).
DstBase == 10

Vals == 1..MaxVal
Idx == 0..(MaxN - 1)
DstIdx == DstBase..(DstBase + MaxN - 1)

BulkOps == {"copy", "copy_n", "fill", "fill_n", "move", "move_n"}
SrcOps == {"copy", "copy_n", "move", "move_n"}
MoveOps == {"move", "move_n"}

RawSlot == [st |-> "raw", val |-> 0]
LiveSlot(v) == [st |-> "live", val |-> v]
MovedSlot == [st |-> "moved", val |-> 0]

IsObject(s) == s.st \in {"live", "moved"}

NoRet == [kind |-> "none", pos |-> 0]
VoidRet == [kind |-> "void", pos |-> 0]
Pos(p) == [kind |-> "pos", pos |-> p]

VARIABLES
    op,         \* bulk algorithm being executed, "none" before the call
    trivial,    \* the std::true_type / std::false_type tag of the dispatch
    pc,         \* position inside the running algorithm
    n,          \* length of the source range / count argument
    nleft,      \* the Size n parameter of the _n variants, counted down
    first,      \* InputIter first (source position); ForwardIter first in fill
    cur,        \* ForwardIter cur
    result,     \* ForwardIter result (destination start)
    value,      \* const T& value of the fill variants
    src,        \* source region
    src0,       \* source region as it was when the call began
    dst,        \* destination region
    failed,     \* a construction has thrown during this call
    failIdx,    \* destination index whose construction threw, -1 if none
    ret,        \* what the call returned: NoRet, VoidRet or Pos(p)
    liveCount,  \* instance counter of the element type
    cnt0,       \* liveCount when the call began
    clog,       \* constructions performed: sequence of [idx, val]
    dlog,       \* destructor invocations: sequence of [rng, idx]
    ub,         \* a destructor ran on a raw slot / a constructor on a live one
    torn        \* ranges the caller has destroyed after the call

VARIABLES
    bop,          \* buffer operation: "none", "get_temporary_buffer", "temporary_buffer"
    bpc,          \* position inside the buffer operation
    sizeofT,      \* sizeof(T)
    request,      \* the length asked for by the caller
    len,          \* ptrdiff_t len (the parameter / the member)
    original_len, \* temporary_buffer::original_len
    buffer,       \* temporary_buffer::buffer: "indet", "null" or "block"
    trivDC,       \* std::is_trivially_default_constructible<T>
    tbSlots,      \* state of the slots of the granted block: "none", "raw", "live"
    tbInitFailed, \* a construction threw inside initialize_buffer
    attempts,     \* calls of malloc: sequence of [len, bytes, ok]
    bret,         \* pair returned by get_temporary_buffer: [ptr, len]
    trivDtor,     \* std::is_trivially_destructible<T>
    tdLog         \* what ~temporary_buffer did: destroy and free events in order

bufVars == <<bop, bpc, sizeofT, request, len, original_len, buffer, trivDC,
             tbSlots, tbInitFailed, attempts, bret, trivDtor, tdLog>>

\* The variables only the teardown of a temporary_buffer writes.
tdVars == <<trivDtor, tdLog>>

bulkVars == <<op, trivial, pc, n, nleft, first, cur, result, value, src, src0,
              dst, failed, failIdx, ret, liveCount, cnt0, clog, dlog, ub, torn>>

VARIABLES
    halive,     \* halive[h]: handle h is constructed and not yet destroyed
    m_ptr,      \* m_ptr[h]: auto_ptr::m_ptr of handle h, 0 for nullptr
    ostate,     \* ostate[x]: heap object x is "unalloc", "live" or "deleted"
    delCount,   \* delCount[x]: how often delete ran on object x
    ext,        \* objects whose only reference was handed out by release()
    lastOp,     \* the last auto_ptr operation: [name, h, a, p, ret]
    opLog,      \* what the last operation did, in order: delete and take events
    prevOp,     \* the operation before the last one
    prevExt,    \* ext before the last operation
    prevAlive,  \* halive before the last operation
    prevPtr,    \* m_ptr before the last operation
    prevState,  \* ostate before the last operation
    prevDel     \* delCount before the last operation

ptrVars == <<halive, m_ptr, ostate, delCount, ext, lastOp, opLog, prevOp,
             prevExt, prevAlive, prevPtr, prevState, prevDel>>

VARIABLES
    limbs,      \* width of size_t in 16-bit limbs: 2 (32 bits) or 4 (64 bits),
                \* 0 until allocator<T> is instantiated
    asize,      \* sizeof(T) of the allocator's element type, 0 until then
    ablock,     \* ablock[k]: "free", or the block operator new returned:
                \* its byte size as limbs, and whether an object lives in it
    acall,      \* the last allocator call: [name, n, ptr]
    aprims,     \* the primitives the last call invoked, in order
    aret        \* what the last call returned: NoBlock, "null", a block, "bad_alloc"

allocVars == <<limbs, asize, ablock, acall, aprims, aret>>

VARIABLES
    dtype,      \* element type of the region: "none" until chosen, then
                \* "trivial" or "nontrivial" (is_trivially_destructible)
    dslots,     \* dslots[i]: the slot at position i of the region
    dcall,      \* the last call on the region: [name, f, l]
    ddtor,      \* positions on which the last call ran the destructor, in order
    dprevCall,  \* the call before the last one
    dprevSlots  \* dslots before the last call

destroyVars == <<dtype, dslots, dcall, ddtor, dprevCall, dprevSlots>>

VARIABLES
    sphase,     \* "none", "input", "heap" (after make_heap), "sorting"
                \* (inside sort_heap's loop), "sorted" (sort_heap returned)
    sarr,       \* the elements of [first, last), position i at sarr[i + 1]
    scomp,      \* the comparison: "less" (operator<) or "greater"
    slast,      \* last - first of sort_heap's shrinking range
    sorig,      \* the elements before make_heap
    sprev       \* sarr before the last step

sortVars == <<sphase, sarr, scomp, slast, sorig, sprev>>

VARIABLES
    c_,         \* priority_queue::c_, the underlying container
    comp_,      \* priority_queue::comp_; "none" until the queue is constructed
    pqcall,     \* the last call on the queue: [name, v]
    pqbag,      \* per key: how often it was pushed minus how often popped
    pqprev,     \* c_ before the last call
    pqprevBag   \* pqbag before the last call

pqVars == <<c_, comp_, pqcall, pqbag, pqprev, pqprevBag>>

VARIABLES
    ttraits,    \* type traits of the call's element types, "none" until chosen:
                \* copyAssign = is_trivially_copy_assignable<Dst>,
                \* moveAssign = is_trivially_move_assignable<Dst>,
                \* copyCons / moveCons = constructing a Dst from a source
                \* lvalue / rvalue is trivial
    tcall,      \* the entry point called, "none" before the call
    ttag,       \* the std::true_type / std::false_type tag it passed on
    tpath       \* the overload selected: "flat" or "construct"

tagVars == <<ttraits, tcall, ttag, tpath>>

\* What the actions of one component leave alone: the other components.
notBulk == <<bufVars, ptrVars, allocVars, destroyVars, sortVars, pqVars, tagVars>>
notBuf == <<bulkVars, ptrVars, allocVars, destroyVars, sortVars, pqVars, tagVars>>
notPtr == <<bulkVars, bufVars, allocVars, destroyVars, sortVars, pqVars, tagVars>>
notAlloc == <<bulkVars, bufVars, ptrVars, destroyVars, sortVars, pqVars, tagVars>>
notDestroy == <<bulkVars, bufVars, ptrVars, allocVars, sortVars, pqVars, tagVars>>
notSort == <<bulkVars, bufVars, ptrVars, allocVars, destroyVars, pqVars, tagVars>>
notPq == <<bulkVars, bufVars, ptrVars, allocVars, destroyVars, sortVars, tagVars>>
notTag == <<bulkVars, bufVars, ptrVars, allocVars, destroyVars, sortVars, pqVars>>

\* ------------------------------------------------------------- construct.h

\* construct(Ty1* ptr, const Ty2& value): placement new of a copy of v.
\* Constructing into a slot that already holds an object is undefined.
construct(region, i, v) == [region EXCEPT ![i] = LiveSlot(v)]

\* destroy_one(ptr, std::false_type): run the destructor on slot i.
destroy_one(region, i) == [region EXCEPT ![i] = RawSlot]

\* destroy_cat with the loop ending one element early.
RECURSIVE destroy_cat_short(_, _, _)
destroy_cat_short(region, f, l) ==
    IF f = l \/ f + 1 = l THEN region
    ELSE destroy_cat_short(destroy_one(region, f), f + 1, l)

\* destroy_cat(first, last, std::false_type): forward loop of destroy(&*first).
RECURSIVE destroy_cat(_, _, _)
destroy_cat(region, f, l) ==
    IF f = l THEN region
    ELSE destroy_cat(destroy_one(region, f), f + 1, l)

\* The destructor calls destroy_cat makes, in order, tagged with the region.
RECURSIVE destroy_cat_log(_, _, _)
destroy_cat_log(rng, f, l) ==
    IF f = l THEN <<>>
    ELSE <<[rng |-> rng, idx |-> f]>> \o destroy_cat_log(rng, f + 1, l)

\* Number of slots in [f, l) that hold no object.
RECURSIVE RawIn(_, _, _)
RawIn(region, f, l) ==
    IF f >= l THEN 0
    ELSE (IF IsObject(region[f]) THEN 0 ELSE 1) + RawIn(region, f + 1, l)

\* ------------------------------------------------------------------- Init

BulkInit ==
    /\ op = "none"
    /\ trivial = FALSE
    /\ pc = "idle"
    /\ n = 0
    /\ nleft = 0
    /\ first = 0
    /\ cur = DstBase
    /\ result = DstBase
    /\ value = 0
    /\ src = [i \in Idx |-> RawSlot]
    /\ src0 = [i \in Idx |-> RawSlot]
    /\ dst = [i \in DstIdx |-> RawSlot]
    /\ failed = FALSE
    /\ failIdx = -1
    /\ ret = NoRet
    /\ liveCount = 0
    /\ cnt0 = 0
    /\ clog = <<>>
    /\ dlog = <<>>
    /\ ub = FALSE
    /\ torn = {}

\* ------------------------------------------------- algobase.h (flat paths)

\* ccystl::copy / copy_n / move over a trivially assignable type: a flat
\* assignment of cnt elements from position f of the source to position r of
\* the destination.  The source is left as it was.
flat_assign(from, to, f, r, cnt) ==
    [i \in DOMAIN to |->
        IF i >= r /\ i < r + cnt THEN LiveSlot(from[f + (i - r)].val) ELSE to[i]]

\* ccystl::fill / fill_n: assign v to every slot of [f, f + cnt).
flat_fill(to, f, cnt, v) ==
    [i \in DOMAIN to |-> IF i >= f /\ i < f + cnt THEN LiveSlot(v) ELSE to[i]]

\* ccystl::copy_n(first, n, result): the pair (first + n, result + n).
copy_n(f, cnt, r) == [first |-> f + cnt, second |-> r + cnt]

\* ---------------------------------------------------------- uninitialized.h

\* uninitialized_copy .. uninitialized_move_n: the public entry points.  The
\* caller hands over an all-raw destination and (for the copy and move
\* variants) an all-live source of cnt elements; the type-trait tag t selects
\* the flat or the per-element body.
Dispatch(o, t, cnt, sv, v) ==
    /\ pc = "idle"
    /\ op' = o
    /\ trivial' = t
    /\ n' = cnt
    /\ nleft' = cnt
    /\ first' = IF o \in SrcOps THEN 0 ELSE DstBase
    /\ cur' = DstBase
    /\ result' = DstBase
    /\ value' = IF o \in SrcOps THEN 0 ELSE v
    /\ src' = [i \in Idx |-> IF o \in SrcOps /\ i < cnt THEN LiveSlot(sv[i]) ELSE RawSlot]
    /\ src0' = src'
    /\ dst' = [i \in DstIdx |-> RawSlot]
    /\ liveCount' = IF o \in SrcOps THEN cnt ELSE 1
    /\ cnt0' = liveCount'
    /\ pc' = IF t THEN "flat" ELSE "loop"
    /\ UNCHANGED <<failed, failIdx, ret, clog, dlog, ub, torn>>
    /\ UNCHANGED notBulk

\* Position returned by the std::true_type overloads.
unchecked_uninit_copy_trivial == result + n
unchecked_uninit_copy_n_trivial_first == copy_n(first, n, result).first
unchecked_uninit_copy_n_trivial == copy_n(first, n, result).second
unchecked_uninit_fill_n_trivial == first + n
unchecked_uninit_move_trivial == result + n
unchecked_uninit_move_n_trivial == result + n

\* The std::true_type overloads: one flat copy / fill / move.
TrivialPath ==
    /\ pc = "flat"
    /\ dst' = IF op \in SrcOps
              THEN flat_assign(src, dst, first, result, n)
              ELSE flat_fill(dst, first, n, value)
    /\ ret' = CASE op = "copy" -> Pos(unchecked_uninit_copy_trivial)
                [] op = "copy_n" -> Pos(unchecked_uninit_copy_n_trivial)
                [] op = "fill" -> VoidRet
                [] op = "fill_n" -> Pos(unchecked_uninit_fill_n_trivial)
                [] op = "move" -> Pos(unchecked_uninit_move_trivial)
                [] op = "move_n" -> Pos(unchecked_uninit_move_n_trivial)
    /\ pc' = "returned"
    /\ UNCHANGED <<op, trivial, n, nleft, first, cur, result, value, src, src0,
                   failed, failIdx, liveCount, cnt0, clog, dlog, ub, torn>>
    /\ UNCHANGED notBulk

\* ccystl::construct(&*cur, v) returning normally: slot cur becomes live.
ConstructOk(v) ==
    /\ dst' = construct(dst, cur, v)
    /\ ub' = (ub \/ IsObject(dst[cur]))
    /\ liveCount' = liveCount + 1
    /\ clog' = Append(clog, [idx |-> cur, val |-> v])
    /\ cur' = cur + 1

\* ccystl::construct(&*cur, v) throwing: no object appears in slot cur, and
\* control enters the catch (...) block.
ConstructThrows ==
    /\ failed' = TRUE
    /\ failIdx' = cur
    /\ pc' = "catch"
    /\ UNCHANGED <<dst, ub, liveCount, clog, cur>>

\* ccystl::destroy(&*p) on the destination, for a type with a destructor.
\* On a slot that holds no object the destructor runs on indeterminate bytes:
\* it either runs to its end (the instance counter drops) or the program dies.
DestroyDst(p, okpc) ==
    /\ dlog' = Append(dlog, [rng |-> "dst", idx |-> p])
    /\ IF IsObject(dst[p])
       THEN /\ dst' = destroy_one(dst, p)
            /\ liveCount' = liveCount - 1
            /\ ub' = ub
            /\ pc' = okpc
       ELSE /\ dst' = dst
            /\ ub' = TRUE
            /\ \/ liveCount' = liveCount - 1 /\ pc' = okpc
               \/ liveCount' = liveCount /\ pc' = "crashed"

\* unchecked_uninit_copy(first, last, result, std::false_type): the try block.
unchecked_uninit_copy_loop ==
    /\ pc = "loop" /\ op = "copy"
    /\ IF first # n
       THEN \/ /\ ConstructOk(src[first].val)
               /\ first' = first + 1
               /\ UNCHANGED <<pc, failed, failIdx, ret>>
            \/ /\ ConstructThrows
               /\ UNCHANGED <<first, ret>>
       ELSE /\ pc' = "returned"
            /\ ret' = Pos(cur)
            /\ UNCHANGED <<dst, ub, liveCount, clog, cur, first, failed, failIdx>>
    /\ UNCHANGED <<op, trivial, n, nleft, result, value, src, src0, cnt0, dlog, torn>>
    /\ UNCHANGED notBulk

\* unchecked_uninit_copy: the catch (...) block and the return after it.
unchecked_uninit_copy_catch ==
    /\ pc = "catch" /\ op = "copy"
    /\ IF result # cur
       THEN /\ DestroyDst(cur, "catch")
            /\ cur' = cur - 1
            /\ ret' = ret
       ELSE /\ pc' = "returned"
            /\ ret' = Pos(cur)
            /\ UNCHANGED <<dst, ub, liveCount, dlog, cur>>
    /\ UNCHANGED <<op, trivial, n, nleft, first, result, value, src, src0,
                   failed, failIdx, cnt0, clog, torn>>
    /\ UNCHANGED notBulk

\* unchecked_uninit_copy_n's try block without the ++first of the loop.
unchecked_uninit_copy_n_loop_stuck ==
    /\ pc = "loop" /\ op = "copy_n"
    /\ IF nleft > 0
       THEN \/ /\ ConstructOk(src[first].val)
               /\ nleft' = nleft - 1
               /\ UNCHANGED <<pc, failed, failIdx, ret, first>>
            \/ /\ ConstructThrows
               /\ UNCHANGED <<first, nleft, ret>>
       ELSE /\ pc' = "returned"
            /\ ret' = Pos(cur)
            /\ UNCHANGED <<dst, ub, liveCount, clog, cur, first, nleft, failed, failIdx>>
    /\ UNCHANGED <<op, trivial, n, result, value, src, src0, cnt0, dlog, torn>>
    /\ UNCHANGED notBulk

\* unchecked_uninit_copy_n(first, n, result, std::false_type): the try block.
unchecked_uninit_copy_n_loop ==
    /\ pc = "loop" /\ op = "copy_n"
    /\ IF nleft > 0
       THEN \/ /\ ConstructOk(src[first].val)
               /\ first' = first + 1
               /\ nleft' = nleft - 1
               /\ UNCHANGED <<pc, failed, failIdx, ret>>
            \/ /\ ConstructThrows
               /\ UNCHANGED <<first, nleft, ret>>
       ELSE /\ pc' = "returned"
            /\ ret' = Pos(cur)
            /\ UNCHANGED <<dst, ub, liveCount, clog, cur, first, nleft, failed, failIdx>>
    /\ UNCHANGED <<op, trivial, n, result, value, src, src0, cnt0, dlog, torn>>
    /\ UNCHANGED notBulk

\* unchecked_uninit_copy_n: the catch (...) block and the return after it.
unchecked_uninit_copy_n_catch ==
    /\ pc = "catch" /\ op = "copy_n"
    /\ IF result # cur
       THEN /\ DestroyDst(cur, "catch")
            /\ cur' = cur - 1
            /\ ret' = ret
       ELSE /\ pc' = "returned"
            /\ ret' = Pos(cur)
            /\ UNCHANGED <<dst, ub, liveCount, dlog, cur>>
    /\ UNCHANGED <<op, trivial, n, nleft, first, result, value, src, src0,
                   failed, failIdx, cnt0, clog, torn>>
    /\ UNCHANGED notBulk

\* unchecked_uninit_fill(first, last, value, std::false_type): the try block.
\* last is result + n; the function returns nothing.
unchecked_uninit_fill_loop ==
    /\ pc = "loop" /\ op = "fill"
    /\ IF cur # result + n
       THEN \/ /\ ConstructOk(value)
               /\ UNCHANGED <<pc, failed, failIdx, ret>>
            \/ /\ ConstructThrows
               /\ ret' = ret
       ELSE /\ pc' = "returned"
            /\ ret' = VoidRet
            /\ UNCHANGED <<dst, ub, liveCount, clog, cur, failed, failIdx>>
    /\ UNCHANGED <<op, trivial, n, nleft, first, result, value, src, src0, cnt0, dlog, torn>>
    /\ UNCHANGED notBulk

\* unchecked_uninit_fill: the catch (...) block.
unchecked_uninit_fill_catch ==
    /\ pc = "catch" /\ op = "fill"
    /\ IF first # cur
       THEN /\ DestroyDst(first, "catch")
            /\ first' = first + 1
            /\ ret' = ret
       ELSE /\ pc' = "returned"
            /\ ret' = VoidRet
            /\ UNCHANGED <<dst, ub, liveCount, dlog, first>>
    /\ UNCHANGED <<op, trivial, n, nleft, cur, result, value, src, src0,
                   failed, failIdx, cnt0, clog, torn>>
    /\ UNCHANGED notBulk

\* unchecked_uninit_fill_n(first, n, value, std::false_type): the try block.
unchecked_uninit_fill_n_loop ==
    /\ pc = "loop" /\ op = "fill_n"
    /\ IF nleft > 0
       THEN \/ /\ ConstructOk(value)
               /\ nleft' = nleft - 1
               /\ UNCHANGED <<pc, failed, failIdx, ret>>
            \/ /\ ConstructThrows
               /\ UNCHANGED <<nleft, ret>>
       ELSE /\ pc' = "returned"
            /\ ret' = Pos(cur)
            /\ UNCHANGED <<dst, ub, liveCount, clog, cur, nleft, failed, failIdx>>
    /\ UNCHANGED <<op, trivial, n, first, result, value, src, src0, cnt0, dlog, torn>>
    /\ UNCHANGED notBulk

\* unchecked_uninit_fill_n's catch block written as the backward walk from cur.
unchecked_uninit_fill_n_catch_backward ==
    /\ pc = "catch" /\ op = "fill_n"
    /\ IF first # cur
       THEN /\ DestroyDst(cur, "catch")
            /\ cur' = cur - 1
            /\ ret' = ret
       ELSE /\ pc' = "returned"
            /\ ret' = Pos(cur)
            /\ UNCHANGED <<dst, ub, liveCount, dlog, cur>>
    /\ UNCHANGED <<op, trivial, n, nleft, first, result, value, src, src0,
                   failed, failIdx, cnt0, clog, torn>>
    /\ UNCHANGED notBulk

\* unchecked_uninit_fill_n: the catch (...) block and the return after it.
unchecked_uninit_fill_n_catch ==
    /\ pc = "catch" /\ op = "fill_n"
    /\ IF first # cur
       THEN /\ DestroyDst(first, "catch")
            /\ first' = first + 1
            /\ ret' = ret
       ELSE /\ pc' = "returned"
            /\ ret' = Pos(cur)
            /\ UNCHANGED <<dst, ub, liveCount, dlog, first>>
    /\ UNCHANGED <<op, trivial, n, nleft, cur, result, value, src, src0,
                   failed, failIdx, cnt0, clog, torn>>
    /\ UNCHANGED notBulk

\* ccystl::move(*first) handed to a constructor that returns normally: the
\* source element is left moved-from.
MoveFrom(region, i) == [region EXCEPT ![i] = MovedSlot]

\* A move constructor that throws may or may not have consumed its argument.
MoveThrows ==
    /\ ConstructThrows
    /\ \/ src' = src
       \/ src' = MoveFrom(src, first)

\* unchecked_uninit_move(first, last, result, std::false_type): the try block.
unchecked_uninit_move_loop ==
    /\ pc = "loop" /\ op = "move"
    /\ IF first # n
       THEN \/ /\ ConstructOk(src[first].val)
               /\ src' = MoveFrom(src, first)
               /\ first' = first + 1
               /\ UNCHANGED <<pc, failed, failIdx, ret>>
            \/ /\ MoveThrows
               /\ UNCHANGED <<first, ret>>
       ELSE /\ pc' = "returned"
            /\ ret' = Pos(cur)
            /\ UNCHANGED <<dst, ub, liveCount, clog, cur, first, failed, failIdx, src>>
    /\ UNCHANGED <<op, trivial, n, nleft, result, value, src0, cnt0, dlog, torn>>
    /\ UNCHANGED notBulk

\* unchecked_uninit_move's catch block destroying the consumed sources too.
unchecked_uninit_move_catch_sources ==
    /\ pc = "catch" /\ op = "move"
    /\ dst' = destroy_cat(dst, result, cur)
    /\ src' = destroy_cat(src, 0, first)
    /\ dlog' = dlog \o destroy_cat_log("dst", result, cur) \o destroy_cat_log("src", 0, first)
    /\ liveCount' = liveCount - (cur - result) - first
    /\ ub' = (ub \/ RawIn(dst, result, cur) > 0)
    /\ pc' = "returned"
    /\ ret' = Pos(cur)
    /\ UNCHANGED <<op, trivial, n, nleft, first, cur, result, value, src0,
                   failed, failIdx, cnt0, clog, torn>>
    /\ UNCHANGED notBulk

\* unchecked_uninit_move: catch (...) { destroy(result, cur); } return cur;
unchecked_uninit_move_catch ==
    /\ pc = "catch" /\ op = "move"
    /\ dst' = destroy_cat(dst, result, cur)
    /\ dlog' = dlog \o destroy_cat_log("dst", result, cur)
    /\ liveCount' = liveCount - (cur - result)
    /\ ub' = (ub \/ RawIn(dst, result, cur) > 0)
    /\ pc' = "returned"
    /\ ret' = Pos(cur)
    /\ UNCHANGED <<op, trivial, n, nleft, first, cur, result, value, src, src0,
                   failed, failIdx, cnt0, clog, torn>>
    /\ UNCHANGED notBulk

\* unchecked_uninit_move_n(first, n, result, std::false_type): the try block.
unchecked_uninit_move_n_loop ==
    /\ pc = "loop" /\ op = "move_n"
    /\ IF nleft > 0
       THEN \/ /\ ConstructOk(src[first].val)
               /\ src' = MoveFrom(src, first)
               /\ first' = first + 1
               /\ nleft' = nleft - 1
               /\ UNCHANGED <<pc, failed, failIdx, ret>>
            \/ /\ MoveThrows
               /\ UNCHANGED <<first, nleft, ret>>
       ELSE /\ pc' = "returned"
            /\ ret' = Pos(cur)
            /\ UNCHANGED <<dst, ub, liveCount, clog, cur, first, nleft, failed, failIdx, src>>
    /\ UNCHANGED <<op, trivial, n, result, value, src0, cnt0, dlog, torn>>
    /\ UNCHANGED notBulk

\* unchecked_uninit_move_n: the catch (...) block, which ends in throw;
unchecked_uninit_move_n_catch ==
    /\ pc = "catch" /\ op = "move_n"
    /\ IF result # cur
       THEN /\ DestroyDst(result, "catch")
            /\ result' = result + 1
       ELSE /\ pc' = "thrown"
            /\ UNCHANGED <<dst, ub, liveCount, dlog, result>>
    /\ UNCHANGED <<op, trivial, n, nleft, first, cur, value, src, src0,
                   failed, failIdx, ret, cnt0, clog, torn>>
    /\ UNCHANGED notBulk


\* destroy(first, last): dispatch on std::is_trivially_destructible.
destroy(region, f, l, triv) == IF triv THEN region ELSE destroy_cat(region, f, l)

\* The caller of a bulk algorithm that returned without a failure destroys
\* the destination range with destroy(result, result + n).
CallerDestroyDst ==
    /\ pc = "returned" /\ ~failed /\ "dst" \notin torn
    /\ dst' = destroy(dst, DstBase, DstBase + n, trivial)
    /\ dlog' = dlog \o (IF trivial THEN <<>> ELSE destroy_cat_log("dst", DstBase, DstBase + n))
    /\ liveCount' = IF trivial THEN liveCount ELSE liveCount - n
    /\ ub' = (ub \/ (~trivial /\ RawIn(dst, DstBase, DstBase + n) > 0))
    /\ torn' = torn \cup {"dst"}
    /\ UNCHANGED <<op, trivial, pc, n, nleft, first, cur, result, value, src, src0,
                   failed, failIdx, ret, cnt0, clog>>
    /\ UNCHANGED notBulk

\* ... and the source range with destroy(first, last).
CallerDestroySrc ==
    /\ pc = "returned" /\ ~failed /\ op \in SrcOps /\ "src" \notin torn
    /\ src' = destroy(src, 0, n, trivial)
    /\ dlog' = dlog \o (IF trivial THEN <<>> ELSE destroy_cat_log("src", 0, n))
    /\ liveCount' = IF trivial THEN liveCount ELSE liveCount - n
    /\ ub' = (ub \/ (~trivial /\ RawIn(src, 0, n) > 0))
    /\ torn' = torn \cup {"src"}
    /\ UNCHANGED <<op, trivial, pc, n, nleft, first, cur, result, value, dst, src0,
                   failed, failIdx, ret, cnt0, clog>>
    /\ UNCHANGED notBulk

\* ------------------------------------------------------------------ memory.h

INT_MAX == 2147483647

\* The element sizes and the requested lengths explored.
MaxSmallReq == 9
SizeofTs == {4, 8}
MaxBlock(sz) == INT_MAX \div sz
Requests(sz) == (-2..MaxSmallReq)
                \cup {MaxBlock(sz) - 1, MaxBlock(sz), MaxBlock(sz) + 1, INT_MAX}

NoPair == [ptr |-> "none", len |-> 0]
pair(p, l) == [ptr |-> p, len |-> l]

BufInit ==
    /\ bop = "none"
    /\ bpc = "idle"
    /\ sizeofT = 4
    /\ request = 0
    /\ len = 0
    /\ original_len = 0
    /\ buffer = "indet"
    /\ trivDC = FALSE
    /\ tbSlots = "none"
    /\ tbInitFailed = FALSE
    /\ attempts = <<>>
    /\ bret = NoPair
    /\ trivDtor = FALSE
    /\ tdLog = <<>>

\* The clamp comparing against INT_MAX instead of INT_MAX / sizeof(T).
ClampLen_nodiv(l, sz) == IF l > INT_MAX THEN INT_MAX ELSE l

\* if (len > INT_MAX / sizeof(T)) len = INT_MAX / sizeof(T);
ClampLen(l, sz) == IF l > INT_MAX \div sz THEN INT_MAX \div sz ELSE l

\* len * sizeof(T), the argument of malloc; -1 stands for a product above
\* INT_MAX (which a 32-bit size_t may wrap).
ByteCount(l, sz) == IF l <= INT_MAX \div sz THEN l * sz ELSE -1

\* One call malloc(len * sizeof(T)), recorded with its outcome.
Malloc(l, ok) == Append(attempts, [len |-> l, bytes |-> ByteCount(l, sizeofT), ok |-> ok])

\* get_temporary_buffer(len) -> get_buffer_helper(len, nullptr): entry and clamp.
get_temporary_buffer(sz, l) ==
    /\ bpc = "idle"
    /\ bop' = "get_temporary_buffer"
    /\ sizeofT' = sz
    /\ request' = l
    /\ len' = ClampLen(l, sz)
    /\ bpc' = "loop"
    /\ UNCHANGED <<original_len, buffer, trivDC, tbSlots, tbInitFailed, attempts, bret>>
    /\ UNCHANGED notBuf
    /\ UNCHANGED tdVars

\* get_buffer_helper with the loop condition len > 1.
get_buffer_helper_loop_gt1 ==
    /\ bpc = "loop" /\ bop = "get_temporary_buffer"
    /\ IF len > 1
       THEN \/ /\ attempts' = Malloc(len, TRUE)
               /\ bret' = pair("block", len)
               /\ bpc' = "done"
               /\ len' = len
            \/ /\ attempts' = Malloc(len, FALSE)
               /\ len' = len \div 2
               /\ UNCHANGED <<bret, bpc>>
       ELSE /\ bret' = pair("null", 0)
            /\ bpc' = "done"
            /\ UNCHANGED <<attempts, len>>
    /\ UNCHANGED <<bop, sizeofT, request, original_len, buffer, trivDC, tbSlots,
                   tbInitFailed>>
    /\ UNCHANGED notBuf
    /\ UNCHANGED tdVars

\* get_buffer_helper returning the length it gave up on with the null pointer.
get_buffer_helper_loop_giveup ==
    /\ bpc = "loop" /\ bop = "get_temporary_buffer"
    /\ IF len > 0
       THEN \/ /\ attempts' = Malloc(len, TRUE)
               /\ bret' = pair("block", len)
               /\ bpc' = "done"
               /\ len' = len
            \/ /\ attempts' = Malloc(len, FALSE)
               /\ bret' = pair("null", len)
               /\ bpc' = "done"
               /\ len' = len
       ELSE /\ bret' = pair("null", 0)
            /\ bpc' = "done"
            /\ UNCHANGED <<attempts, len>>
    /\ UNCHANGED <<bop, sizeofT, request, original_len, buffer, trivDC, tbSlots,
                   tbInitFailed>>
    /\ UNCHANGED notBuf
    /\ UNCHANGED tdVars

\* get_buffer_helper: one turn of while (len > 0), or the return after it.
get_buffer_helper_loop ==
    /\ bpc = "loop" /\ bop = "get_temporary_buffer"
    /\ IF len > 0
       THEN \/ /\ attempts' = Malloc(len, TRUE)
               /\ bret' = pair("block", len)
               /\ bpc' = "done"
               /\ len' = len
            \/ /\ attempts' = Malloc(len, FALSE)
               /\ len' = len \div 2
               /\ UNCHANGED <<bret, bpc>>
       ELSE /\ bret' = pair("null", 0)
            /\ bpc' = "done"
            /\ UNCHANGED <<attempts, len>>
    /\ UNCHANGED <<bop, sizeofT, request, original_len, buffer, trivDC, tbSlots,
                   tbInitFailed>>
    /\ UNCHANGED notBuf
    /\ UNCHANGED tdVars

\* The constructor recording original_len after the clamp instead of before.
temporary_buffer_clampfirst(sz, l, tdc) ==
    /\ bpc = "idle"
    /\ l >= 0
    /\ bop' = "temporary_buffer"
    /\ sizeofT' = sz
    /\ trivDC' = tdc
    /\ request' = l
    /\ len' = ClampLen(l, sz)
    /\ original_len' = len'
    /\ buffer' = "indet"
    /\ bpc' = "loop"
    /\ trivDtor' \in {d \in BOOLEAN : tdc => d}
    /\ UNCHANGED <<tbSlots, tbInitFailed, attempts, bret, tdLog>>
    /\ UNCHANGED notBuf

\* temporary_buffer(first, last): len = distance(first, last), then the entry
\* of allocate_buffer: original_len = len and the clamp.  buffer has no
\* initializer, so it starts indeterminate.  The element type is trivially
\* default constructible (tdc) only if it is trivially destructible as well.
temporary_buffer(sz, l, tdc) ==
    /\ bpc = "idle"
    /\ l >= 0
    /\ bop' = "temporary_buffer"
    /\ sizeofT' = sz
    /\ trivDC' = tdc
    /\ request' = l
    /\ original_len' = l
    /\ len' = ClampLen(l, sz)
    /\ buffer' = "indet"
    /\ bpc' = "loop"
    /\ trivDtor' \in {d \in BOOLEAN : tdc => d}
    /\ UNCHANGED <<tbSlots, tbInitFailed, attempts, bret, tdLog>>
    /\ UNCHANGED notBuf

\* allocate_buffer shrinking the request by one instead of halving it.
allocate_buffer_loop_minus1 ==
    /\ bpc = "loop" /\ bop = "temporary_buffer"
    /\ IF len > 0
       THEN \/ /\ attempts' = Malloc(len, TRUE)
               /\ buffer' = "block"
               /\ tbSlots' = "raw"
               /\ bpc' = "init"
               /\ len' = len
            \/ /\ attempts' = Malloc(len, FALSE)
               /\ buffer' = "null"
               /\ len' = len - 1
               /\ UNCHANGED <<tbSlots, bpc>>
       ELSE /\ bpc' = "init"
            /\ UNCHANGED <<attempts, buffer, tbSlots, len>>
    /\ UNCHANGED <<bop, sizeofT, request, original_len, trivDC, tbInitFailed, bret>>
    /\ UNCHANGED notBuf
    /\ UNCHANGED tdVars

\* allocate_buffer: one turn of while (len > 0), or leaving the loop.
allocate_buffer_loop ==
    /\ bpc = "loop" /\ bop = "temporary_buffer"
    /\ IF len > 0
       THEN \/ /\ attempts' = Malloc(len, TRUE)
               /\ buffer' = "block"
               /\ tbSlots' = "raw"
               /\ bpc' = "init"
               /\ len' = len
            \/ /\ attempts' = Malloc(len, FALSE)
               /\ buffer' = "null"
               /\ len' = len \div 2
               /\ UNCHANGED <<tbSlots, bpc>>
       ELSE /\ bpc' = "init"
            /\ UNCHANGED <<attempts, buffer, tbSlots, len>>
    /\ UNCHANGED <<bop, sizeofT, request, original_len, trivDC, tbInitFailed, bret>>
    /\ UNCHANGED notBuf
    /\ UNCHANGED tdVars

\* The rest of the constructor: if (len > 0) initialize_buffer(*first, ...).
\* For a trivially default constructible T the slots stay raw; otherwise
\* uninitialized_fill_n(buffer, len, value) fills them, and when a
\* construction throws it destroys what it built and returns normally, so
\* the constructor's catch block is never entered.
initialize_buffer ==
    /\ bpc = "init" /\ bop = "temporary_buffer"
    /\ IF len > 0 /\ ~trivDC
       THEN \/ tbSlots' = "live" /\ tbInitFailed' = FALSE
            \/ tbSlots' = "raw" /\ tbInitFailed' = TRUE
       ELSE UNCHANGED <<tbSlots, tbInitFailed>>
    /\ bpc' = "done"
    /\ UNCHANGED <<bop, sizeofT, request, len, original_len, buffer, trivDC,
                   attempts, bret>>
    /\ UNCHANGED notBuf
    /\ UNCHANGED tdVars

\* ------------------------------------------------------------ specification

\* Reading the member buffer: a member that was never assigned holds an
\* indeterminate value, which may read as null or as a wild pointer.
ReadPointer(b) == IF b = "indet" THEN {"null", "wild"} ELSE {b}

\* ~temporary_buffer(): destroy(buffer, buffer + len), then free(buffer).
\* destroy runs the destructor once on each of the len slots unless T is
\* trivially destructible; onRaw counts the slots among them holding no object.
temporary_buffer_dtor ==
    /\ bpc = "done" /\ bop = "temporary_buffer"
    /\ \E q \in ReadPointer(buffer) :
           tdLog' = tdLog
                     \o (IF trivDtor \/ len = 0 THEN <<>>
                         ELSE <<[ev |-> "destroy", cnt |-> len,
                                 onRaw |-> IF tbSlots = "live" THEN 0 ELSE len]>>)
                     \o <<[ev |-> "free", ptr |-> q]>>
    /\ tbSlots' = IF ~trivDtor /\ tbSlots = "live" THEN "raw" ELSE tbSlots
    /\ bpc' = "gone"
    /\ UNCHANGED <<bop, sizeofT, request, len, original_len, buffer, trivDC,
                   tbInitFailed, attempts, bret, trivDtor>>
    /\ UNCHANGED notBuf


\* ------------------------------------------------------- memory.h: auto_ptr

MaxHandles == 2
MaxObj == 2

Handles == 1..MaxHandles
Objs == 1..MaxObj

NoOp == [name |-> "none", h |-> 0, a |-> 0, p |-> 0, ret |-> 0]
OpRec(nm, h, a, p, r) == [name |-> nm, h |-> h, a |-> a, p |-> p, ret |-> r]

PtrInit ==
    /\ halive = [h \in Handles |-> FALSE]
    /\ m_ptr = [h \in Handles |-> 0]
    /\ ostate = [x \in Objs |-> "unalloc"]
    /\ delCount = [x \in Objs |-> 0]
    /\ ext = {}
    /\ lastOp = NoOp
    /\ opLog = <<>>
    /\ prevOp = NoOp
    /\ prevExt = ext
    /\ prevAlive = halive
    /\ prevPtr = m_ptr
    /\ prevState = ostate
    /\ prevDel = delCount

\* The object a new-expression yields next.
Fresh == {x \in Objs : ostate[x] = "unalloc" /\ \A y \in Objs : y < x => ostate[y] # "unalloc"}

\* The references a caller may hand to a handle: nullptr, a fresh object, or
\* an object it got back from release().
Handable == {0} \cup Fresh \cup ext

\* State of the objects once the caller has handed x over.
Handed(st, x) == IF x = 0 THEN st ELSE [st EXCEPT ![x] = "live"]

\* delete x: nothing for nullptr, otherwise the object is destroyed.
DeleteState(st, x) == IF x = 0 THEN st ELSE [st EXCEPT ![x] = "deleted"]
DeleteCount(dc, x) == IF x = 0 THEN dc ELSE [dc EXCEPT ![x] = dc[x] + 1]
DeleteLog(x) == IF x = 0 THEN <<>> ELSE <<[ev |-> "delete", obj |-> x]>>
TakeLog(h, x) == <<[ev |-> "take", h |-> h, obj |-> x]>>

\* Every action records the state it started from.
Snapshot ==
    /\ prevOp' = lastOp
    /\ prevExt' = ext
    /\ prevAlive' = halive
    /\ prevPtr' = m_ptr
    /\ prevState' = ostate
    /\ prevDel' = delCount

\* explicit auto_ptr(T* p = nullptr) : m_ptr(p)
auto_ptr_ctor(h, p) ==
    /\ ~halive[h]
    /\ p \in Handable
    /\ halive' = [halive EXCEPT ![h] = TRUE]
    /\ m_ptr' = [m_ptr EXCEPT ![h] = p]
    /\ ostate' = Handed(ostate, p)
    /\ ext' = ext \ {p}
    /\ lastOp' = OpRec("ctor", h, 0, p, 0)
    /\ opLog' = TakeLog(h, p)
    /\ Snapshot
    /\ UNCHANGED delCount
    /\ UNCHANGED notPtr

\* release() that hands the reference out and keeps it as well.
release_keep(h) ==
    /\ halive[h]
    /\ m_ptr' = m_ptr
    /\ ext' = ext \cup ({m_ptr[h]} \ {0})
    /\ lastOp' = OpRec("release", h, 0, 0, m_ptr[h])
    /\ opLog' = <<>>
    /\ Snapshot
    /\ UNCHANGED <<halive, ostate, delCount>>
    /\ UNCHANGED notPtr

\* T* release() { T* tmp = m_ptr; m_ptr = nullptr; return tmp; }
release(h) ==
    /\ halive[h]
    /\ m_ptr' = [m_ptr EXCEPT ![h] = 0]
    /\ ext' = ext \cup ({m_ptr[h]} \ {0})
    /\ lastOp' = OpRec("release", h, 0, 0, m_ptr[h])
    /\ opLog' = <<>>
    /\ Snapshot
    /\ UNCHANGED <<halive, ostate, delCount>>
    /\ UNCHANGED notPtr

\* A copy constructor that reads rhs.get() where the code calls rhs.release().
auto_ptr_copy_get(b, a) ==
    /\ ~halive[b] /\ halive[a]
    /\ halive' = [halive EXCEPT ![b] = TRUE]
    /\ m_ptr' = [m_ptr EXCEPT ![b] = m_ptr[a]]
    /\ lastOp' = OpRec("copy", b, a, 0, 0)
    /\ opLog' = TakeLog(b, m_ptr[a])
    /\ Snapshot
    /\ UNCHANGED <<ostate, delCount, ext>>
    /\ UNCHANGED notPtr

\* auto_ptr(auto_ptr& rhs) and auto_ptr(auto_ptr<U>& rhs): m_ptr(rhs.release())
auto_ptr_copy(b, a) ==
    /\ ~halive[b] /\ halive[a]
    /\ halive' = [halive EXCEPT ![b] = TRUE]
    /\ m_ptr' = [m_ptr EXCEPT ![a] = 0, ![b] = m_ptr[a]]
    /\ lastOp' = OpRec("copy", b, a, 0, 0)
    /\ opLog' = TakeLog(b, m_ptr[a])
    /\ Snapshot
    /\ UNCHANGED <<ostate, delCount, ext>>
    /\ UNCHANGED notPtr

\* Taking over rhs's reference without emptying rhs.
TakeOver_get(b, a) ==
    /\ ostate' = DeleteState(ostate, m_ptr[b])
    /\ delCount' = DeleteCount(delCount, m_ptr[b])
    /\ m_ptr' = [m_ptr EXCEPT ![b] = m_ptr[a]]
    /\ opLog' = DeleteLog(m_ptr[b]) \o TakeLog(b, m_ptr[a])

\* What delete m_ptr; m_ptr = rhs.release(); does to handle b with rhs = a.
\* With a = b the handle ends up holding the object it has just deleted.
TakeOver(b, a) ==
    /\ ostate' = DeleteState(ostate, m_ptr[b])
    /\ delCount' = DeleteCount(delCount, m_ptr[b])
    /\ m_ptr' = [[m_ptr EXCEPT ![a] = 0] EXCEPT ![b] = m_ptr[a]]
    /\ opLog' = DeleteLog(m_ptr[b]) \o TakeLog(b, m_ptr[a])

\* auto_ptr& operator=(const auto_ptr& rhs): if (this != &rhs) { ... }
operator_assign(b, a) ==
    /\ halive[b] /\ halive[a]
    /\ IF b # a
       THEN TakeOver(b, a)
       ELSE /\ opLog' = <<>>
            /\ UNCHANGED <<ostate, delCount, m_ptr>>
    /\ lastOp' = OpRec("assign", b, a, 0, 0)
    /\ Snapshot
    /\ UNCHANGED <<halive, ext>>
    /\ UNCHANGED notPtr

\* operator= without the comparison that guards self-assignment.
operator_assign_U_unguarded(b, a) ==
    /\ halive[b] /\ halive[a]
    /\ TakeOver(b, a)
    /\ lastOp' = OpRec("assign", b, a, 0, 0)
    /\ Snapshot
    /\ UNCHANGED <<halive, ext>>
    /\ UNCHANGED notPtr

\* template <class U> auto_ptr& operator=(auto_ptr<U>& rhs):
\* if (this->get() != rhs.get()) { ... }
operator_assign_U(b, a) ==
    /\ halive[b] /\ halive[a]
    /\ IF m_ptr[b] # m_ptr[a]
       THEN TakeOver(b, a)
       ELSE /\ opLog' = <<>>
            /\ UNCHANGED <<ostate, delCount, m_ptr>>
    /\ lastOp' = OpRec("assign", b, a, 0, 0)
    /\ Snapshot
    /\ UNCHANGED <<halive, ext>>
    /\ UNCHANGED notPtr

\* reset() without the comparison m_ptr != p.
reset_unguarded(h, p) ==
    /\ halive[h]
    /\ p \in Handable \cup {m_ptr[h]}
    /\ ostate' = Handed(DeleteState(ostate, m_ptr[h]), p)
    /\ delCount' = DeleteCount(delCount, m_ptr[h])
    /\ m_ptr' = [m_ptr EXCEPT ![h] = p]
    /\ opLog' = DeleteLog(m_ptr[h]) \o TakeLog(h, p)
    /\ ext' = ext \ {p}
    /\ lastOp' = OpRec("reset", h, 0, p, 0)
    /\ Snapshot
    /\ UNCHANGED halive
    /\ UNCHANGED notPtr

\* void reset(T* p = nullptr) { if (m_ptr != p) { delete m_ptr; m_ptr = p; } }
\* The caller passes nullptr, the reference the handle holds, or one it owns.
reset(h, p) ==
    /\ halive[h]
    /\ p \in Handable \cup {m_ptr[h]}
    /\ IF m_ptr[h] # p
       THEN /\ ostate' = Handed(DeleteState(ostate, m_ptr[h]), p)
            /\ delCount' = DeleteCount(delCount, m_ptr[h])
            /\ m_ptr' = [m_ptr EXCEPT ![h] = p]
            /\ opLog' = DeleteLog(m_ptr[h]) \o TakeLog(h, p)
       ELSE /\ opLog' = <<>>
            /\ UNCHANGED <<ostate, delCount, m_ptr>>
    /\ ext' = ext \ {p}
    /\ lastOp' = OpRec("reset", h, 0, p, 0)
    /\ Snapshot
    /\ UNCHANGED halive
    /\ UNCHANGED notPtr

\* A destructor that forgets the object it holds.
auto_ptr_dtor_leak(h) ==
    /\ halive[h]
    /\ halive' = [halive EXCEPT ![h] = FALSE]
    /\ opLog' = <<>>
    /\ lastOp' = OpRec("dtor", h, 0, 0, 0)
    /\ Snapshot
    /\ UNCHANGED <<m_ptr, ext, ostate, delCount>>
    /\ UNCHANGED notPtr

\* ~auto_ptr() { delete m_ptr; }
auto_ptr_dtor(h) ==
    /\ halive[h]
    /\ halive' = [halive EXCEPT ![h] = FALSE]
    /\ ostate' = DeleteState(ostate, m_ptr[h])
    /\ delCount' = DeleteCount(delCount, m_ptr[h])
    /\ opLog' = DeleteLog(m_ptr[h])
    /\ lastOp' = OpRec("dtor", h, 0, 0, 0)
    /\ Snapshot
    /\ UNCHANGED <<m_ptr, ext>>
    /\ UNCHANGED notPtr

PtrNext ==
    \/ \E h \in Handles, p \in 0..MaxObj : auto_ptr_ctor(h, p)
    \/ \E h \in Handles : release(h)
    \/ \E b \in Handles, a \in Handles : auto_ptr_copy(b, a)
    \/ \E b \in Handles, a \in Handles : operator_assign(b, a)
    \/ \E b \in Handles, a \in Handles : operator_assign_U(b, a)
    \/ \E h \in Handles, p \in 0..MaxObj : reset(h, p)
    \/ \E h \in Handles : auto_ptr_dtor(h)


\* ---------------------------------------------------- allocator.h: allocator

\* size_type is size_t: an unsigned integer of 16 * limbs bits, kept as a
\* little-endian sequence of 16-bit limbs.
LimbBase == 65536
SizeWidths == {2, 4}

MaxBlocks == 2
MaxSmallN == 3

Blocks == 1..MaxBlocks

\* The number with lowest limb low, highest limb top and mid in between.
Num(w, top, mid, low) ==
    [i \in 1..w |-> IF i = 1 THEN low ELSE IF i = w THEN top ELSE mid]

IsZero(x) == \A i \in 1..Len(x) : x[i] = 0

\* Element counts passed to allocate: small ones, the largest count whose
\* byte size fits size_t, the two counts after it, and the largest size_t.
Counts(w, sz) ==
    {Num(w, 0, 0, k) : k \in 0..MaxSmallN}
        \cup {Num(w, LimbBase \div sz - 1, LimbBase - 1, LimbBase - 1),
              Num(w, LimbBase \div sz, 0, 0),
              Num(w, LimbBase \div sz, 0, 1),
              Num(w, LimbBase - 1, LimbBase - 1, LimbBase - 1)}

\* n * sz in size_t arithmetic: the carry into limb i, the limbs of the
\* product modulo 2^(16 * Len(x)), and the carry out of the highest limb.
RECURSIVE MulCarry(_, _, _)
MulCarry(x, sz, i) ==
    IF i = 1 THEN 0 ELSE (x[i - 1] * sz + MulCarry(x, sz, i - 1)) \div LimbBase

MulWrap(x, sz) == [i \in 1..Len(x) |-> (x[i] * sz + MulCarry(x, sz, i)) % LimbBase]

\* The product in the integers: one limb more than size_t has.
MulExact(x, sz) == MulWrap(x, sz) \o <<MulCarry(x, sz, Len(x) + 1)>>

NoBlock == [kind |-> "none", blk |-> 0]
NullBlock == [kind |-> "null", blk |-> 0]
BadAlloc == [kind |-> "bad_alloc", blk |-> 0]
Block(k) == [kind |-> "block", blk |-> k]

FreeBlock == [used |-> FALSE, bytes |-> <<>>, live |-> FALSE]

AllocInit ==
    /\ limbs = 0
    /\ asize = 0
    /\ ablock = [k \in Blocks |-> FreeBlock]
    /\ acall = [name |-> "none", n |-> <<>>, ptr |-> NoBlock]
    /\ aprims = <<>>
    /\ aret = NoBlock

\* template <class T> class allocator, instantiated for an element type of
\* sz bytes on a build whose size_t has w limbs.
allocator(w, sz) ==
    /\ limbs = 0
    /\ limbs' = w
    /\ asize' = sz
    /\ UNCHANGED <<ablock, acall, aprims, aret>>
    /\ UNCHANGED notAlloc

\* ::operator new(bytes): a block of that many bytes, or std::bad_alloc.
OperatorNew(bytes) ==
    \/ \E k \in Blocks :
           /\ ~ablock[k].used
           /\ \A j \in Blocks : j < k => ablock[j].used
           /\ ablock' = [ablock EXCEPT ![k] = [used |-> TRUE, bytes |-> bytes, live |-> FALSE]]
           /\ aret' = Block(k)
    \/ aret' = BadAlloc /\ UNCHANGED ablock

\* allocate(): return static_cast<T*>(::operator new(sizeof(T)));
allocate_one ==
    /\ limbs # 0
    /\ acall' = [name |-> "allocate", n |-> Num(limbs, 0, 0, 1), ptr |-> NoBlock]
    /\ aprims' = <<[prim |-> "new", bytes |-> Num(limbs, 0, 0, asize), blk |-> 0]>>
    /\ OperatorNew(Num(limbs, 0, 0, asize))
    /\ UNCHANGED <<limbs, asize>>
    /\ UNCHANGED notAlloc

\* allocate(n) that hands n == 0 to operator new as well.
allocate_nozero(x) ==
    /\ limbs # 0
    /\ x \in Counts(limbs, asize)
    /\ acall' = [name |-> "allocate", n |-> x, ptr |-> NoBlock]
    /\ aprims' = <<[prim |-> "new", bytes |-> MulWrap(x, asize), blk |-> 0]>>
    /\ OperatorNew(MulWrap(x, asize))
    /\ UNCHANGED <<limbs, asize>>
    /\ UNCHANGED notAlloc

\* allocate(n): if (n == 0) return nullptr;
\*              return static_cast<T*>(::operator new(n * sizeof(T)));
allocate(x) ==
    /\ limbs # 0
    /\ x \in Counts(limbs, asize)
    /\ acall' = [name |-> "allocate", n |-> x, ptr |-> NoBlock]
    /\ IF IsZero(x)
       THEN /\ aprims' = <<>>
            /\ aret' = NullBlock
            /\ UNCHANGED ablock
       ELSE /\ aprims' = <<[prim |-> "new", bytes |-> MulWrap(x, asize), blk |-> 0]>>
            /\ OperatorNew(MulWrap(x, asize))
    /\ UNCHANGED <<limbs, asize>>
    /\ UNCHANGED notAlloc

\* The pointers a caller passes to deallocate: nullptr or a block it holds.
Deallocatable == {NullBlock} \cup {Block(k) : k \in {j \in Blocks : ablock[j].used}}

\* deallocate(ptr) and deallocate(ptr, n): if (ptr == nullptr) return;
\*                                         ::operator delete(ptr);
deallocate(ptr) ==
    /\ limbs # 0
    /\ ptr \in Deallocatable
    /\ acall' = [name |-> "deallocate", n |-> <<>>, ptr |-> ptr]
    /\ IF ptr = NullBlock
       THEN /\ aprims' = <<>>
            /\ UNCHANGED ablock
       ELSE /\ aprims' = <<[prim |-> "delete", bytes |-> <<>>, blk |-> ptr.blk]>>
            /\ ablock' = [ablock EXCEPT ![ptr.blk] = FreeBlock]
    /\ aret' = NoBlock
    /\ UNCHANGED <<limbs, asize>>
    /\ UNCHANGED notAlloc

\* allocator::construct(ptr, ...): ccystl::construct(ptr, ...) on a block.
allocator_construct(k) ==
    /\ ablock[k].used /\ ~ablock[k].live
    /\ ablock' = [ablock EXCEPT ![k].live = TRUE]
    /\ acall' = [name |-> "construct", n |-> <<>>, ptr |-> Block(k)]
    /\ aprims' = <<[prim |-> "construct", bytes |-> <<>>, blk |-> k]>>
    /\ aret' = NoBlock
    /\ UNCHANGED <<limbs, asize>>
    /\ UNCHANGED notAlloc

\* allocator::destroy(ptr): ccystl::destroy(ptr) on a block.
allocator_destroy(k) ==
    /\ ablock[k].used /\ ablock[k].live
    /\ ablock' = [ablock EXCEPT ![k].live = FALSE]
    /\ acall' = [name |-> "destroy", n |-> <<>>, ptr |-> Block(k)]
    /\ aprims' = <<[prim |-> "destroy", bytes |-> <<>>, blk |-> k]>>
    /\ aret' = NoBlock
    /\ UNCHANGED <<limbs, asize>>
    /\ UNCHANGED notAlloc

AllocNext ==
    \/ \E w \in SizeWidths, sz \in SizeofTs : allocator(w, sz)
    \/ allocate_one
    \/ \E w \in SizeWidths, sz \in SizeofTs : \E x \in Counts(w, sz) : allocate(x)
    \/ \E ptr \in {NullBlock} \cup {Block(k) : k \in Blocks} : deallocate(ptr)
    \/ \E k \in Blocks : allocator_construct(k)
    \/ \E k \in Blocks : allocator_destroy(k)


\* ------------------------------------------- construct.h: destroy on a region

NoCall == [name |-> "none", f |-> 0, l |-> 0]

DestroyInit ==
    /\ dtype = "none"
    /\ dslots = [i \in Idx |-> RawSlot]
    /\ dcall = NoCall
    /\ ddtor = <<>>
    /\ dprevCall = NoCall
    /\ dprevSlots = dslots

\* A region of MaxN raw slots of an element type that is, or is not,
\* trivially destructible.
region_of(t) ==
    /\ dtype = "none"
    /\ dtype' = t
    /\ UNCHANGED <<dslots, dcall, ddtor, dprevCall, dprevSlots>>
    /\ UNCHANGED notDestroy

\* construct(ptr, value) on slot i; a slot of a non-trivial type must be raw.
construct_at(i, v) ==
    /\ dtype # "none"
    /\ dtype = "nontrivial" => ~IsObject(dslots[i])
    /\ dslots' = construct(dslots, i, v)
    /\ dcall' = [name |-> "construct", f |-> i, l |-> i + 1]
    /\ ddtor' = <<>>
    /\ dprevCall' = dcall
    /\ dprevSlots' = dslots
    /\ UNCHANGED dtype
    /\ UNCHANGED notDestroy

\* destroy(ptr) that ignores the is_trivially_destructible tag.
destroy_ptr_untagged(i) ==
    /\ dtype # "none"
    /\ dtype = "nontrivial" => IsObject(dslots[i])
    /\ dslots' = destroy_one(dslots, i)
    /\ ddtor' = <<i>>
    /\ dcall' = [name |-> "destroy", f |-> i, l |-> i + 1]
    /\ dprevCall' = dcall
    /\ dprevSlots' = dslots
    /\ UNCHANGED dtype
    /\ UNCHANGED notDestroy

\* destroy(Ty* ptr): destroy_one(ptr, std::is_trivially_destructible<Ty>{}).
\* The true_type overload has an empty body; the false_type one runs the
\* destructor, so the caller passes a slot that holds an object.
destroy_ptr(i) ==
    /\ dtype # "none"
    /\ dtype = "nontrivial" => IsObject(dslots[i])
    /\ dslots' = IF dtype = "trivial" THEN dslots ELSE destroy_one(dslots, i)
    /\ ddtor' = IF dtype = "trivial" THEN <<>> ELSE <<i>>
    /\ dcall' = [name |-> "destroy", f |-> i, l |-> i + 1]
    /\ dprevCall' = dcall
    /\ dprevSlots' = dslots
    /\ UNCHANGED dtype
    /\ UNCHANGED notDestroy

\* The positions destroy_cat_log lists.
LogPositions(lg) == [j \in 1..Len(lg) |-> lg[j].idx]

\* The ranges a caller passes to destroy(first, last).
Ranges == {r \in (0..MaxN) \X (0..MaxN) : r[1] <= r[2]}

\* destroy(first, last) whose loop also takes the slot at last.
destroy_range_closed(f, l) ==
    /\ dtype # "none" /\ <<f, l>> \in Ranges
    /\ dtype = "nontrivial" => RawIn(dslots, f, l) = 0
    /\ dslots' = destroy(dslots, f, IF l < MaxN THEN l + 1 ELSE l, dtype = "trivial")
    /\ ddtor' = IF dtype = "trivial" THEN <<>>
                ELSE LogPositions(destroy_cat_log("region", f, IF l < MaxN THEN l + 1 ELSE l))
    /\ dcall' = [name |-> "destroy_range", f |-> f, l |-> l]
    /\ dprevCall' = dcall
    /\ dprevSlots' = dslots
    /\ UNCHANGED dtype
    /\ UNCHANGED notDestroy

\* destroy(first, last): destroy_cat(first, last, is_trivially_destructible).
\* For a non-trivial type every slot of the range holds an object.
destroy_range(f, l) ==
    /\ dtype # "none" /\ <<f, l>> \in Ranges
    /\ dtype = "nontrivial" => RawIn(dslots, f, l) = 0
    /\ dslots' = destroy(dslots, f, l, dtype = "trivial")
    /\ ddtor' = IF dtype = "trivial" THEN <<>>
                ELSE LogPositions(destroy_cat_log("region", f, l))
    /\ dcall' = [name |-> "destroy_range", f |-> f, l |-> l]
    /\ dprevCall' = dcall
    /\ dprevSlots' = dslots
    /\ UNCHANGED dtype
    /\ UNCHANGED notDestroy

DestroyNext ==
    \/ \E t \in {"trivial", "nontrivial"} : region_of(t)
    \/ \E i \in Idx, v \in Vals : construct_at(i, v)
    \/ \E i \in Idx : destroy_ptr(i)
    \/ \E f \in 0..MaxN, l \in 0..MaxN : destroy_range(f, l)


\* ------------------------------------------------------------- heap_algo.h

MaxHeapLen == 5
MaxKey == 3

Keys == 1..MaxKey
Comps == {"less", "greater"}

\* comp(x, y): operator< for the overloads without a comparison object.
Comp(c, x, y) == IF c = "less" THEN x < y ELSE x > y

\* *(first + i) and *(first + i) = v.
At(a, i) == a[i + 1]
Put(a, i, v) == [a EXCEPT ![i + 1] = v]

\* Division of a signed Distance by 2: C++ truncates toward zero.
Half(x) == IF x >= 0 THEN x \div 2 ELSE -((-x) \div 2)

\* push_heap_aux(first, holeIndex, topIndex, value, comp): percolate up.
RECURSIVE push_heap_aux(_, _, _, _, _)
push_heap_aux(a, hole, top, v, c) ==
    IF hole > top /\ Comp(c, At(a, Half(hole - 1)), v)
    THEN push_heap_aux(Put(a, hole, At(a, Half(hole - 1))), Half(hole - 1), top, v, c)
    ELSE Put(a, hole, v)

\* push_heap(first, last, comp) on the first ln elements of a.
push_heap(a, ln, c) == push_heap_aux(a, ln - 1, 0, At(a, ln - 1), c)

\* The while loop of adjust_heap: the array, hole and rchild it ends with.
RECURSIVE adjust_heap_loop(_, _, _, _, _)
adjust_heap_loop(a, hole, rchild, ln, c) ==
    IF rchild < ln
    THEN LET r == IF Comp(c, At(a, rchild), At(a, rchild - 1))
                  THEN rchild - 1 ELSE rchild
         IN adjust_heap_loop(Put(a, hole, At(a, r)), r, 2 * (r + 1), ln, c)
    ELSE [arr |-> a, hole |-> hole, rchild |-> rchild]

\* adjust_heap without the step for a hole that has a left child only.
adjust_heap_noleft(a, hole, ln, v, c) ==
    LET e == adjust_heap_loop(a, hole, 2 * hole + 2, ln, c)
    IN push_heap_aux(e.arr, e.hole, hole, v, c)

\* adjust_heap that drops the value instead of percolating it up.
adjust_heap_nopush(a, hole, ln, v, c) ==
    LET e == adjust_heap_loop(a, hole, 2 * hole + 2, ln, c)
    IN IF e.rchild = ln
       THEN Put(Put(e.arr, e.hole, At(e.arr, e.rchild - 1)), e.rchild - 1, v)
       ELSE Put(e.arr, e.hole, v)

\* adjust_heap(first, holeIndex, len, value, comp): percolate down, then up.
adjust_heap(a, hole, ln, v, c) ==
    LET e == adjust_heap_loop(a, hole, 2 * hole + 2, ln, c)
    IN IF e.rchild = ln
       THEN push_heap_aux(Put(e.arr, e.hole, At(e.arr, e.rchild - 1)),
                          e.rchild - 1, hole, v, c)
       ELSE push_heap_aux(e.arr, e.hole, hole, v, c)

\* pop_heap_aux(first, last, result, value, Distance*, comp) with last and
\* result at position lst: *result = *first, then adjust_heap over [0, lst).
pop_heap_aux(a, lst, v, c) == adjust_heap(Put(a, lst, At(a, 0)), 0, lst, v, c)

\* pop_heap(first, last, comp) on the first ln elements of a.
pop_heap(a, ln, c) == pop_heap_aux(a, ln - 1, At(a, ln - 1), c)

\* The while (true) loop of make_heap_aux, from holeIndex down to 0.
RECURSIVE make_heap_loop(_, _, _, _)
make_heap_loop(a, hole, ln, c) ==
    LET b == adjust_heap(a, hole, ln, At(a, hole), c)
    IN IF hole = 0 THEN b ELSE make_heap_loop(b, hole - 1, ln, c)

\* make_heap(first, last, comp).
make_heap(a, c) ==
    IF Len(a) < 2 THEN a ELSE make_heap_loop(a, (Len(a) - 2) \div 2, Len(a), c)

\* The ranges handed to make_heap.
RECURSIVE SeqsUpTo(_)
SeqsUpTo(k) ==
    IF k = 0 THEN {<<>>}
    ELSE SeqsUpTo(k - 1) \cup {Append(q, x) : q \in {r \in SeqsUpTo(k - 1) : Len(r) = k - 1}, x \in Keys}

SortInit ==
    /\ sphase = "none"
    /\ sarr = <<>>
    /\ scomp = "less"
    /\ slast = 0
    /\ sorig = <<>>
    /\ sprev = <<>>

\* The caller's range [first, last) and comparison.
sort_input(a, c) ==
    /\ sphase = "none"
    /\ sphase' = "input"
    /\ sarr' = a /\ sorig' = a /\ sprev' = a
    /\ scomp' = c
    /\ slast' = Len(a)
    /\ UNCHANGED notSort

\* make_heap(first, last) / make_heap(first, last, comp)
make_heap_call ==
    /\ sphase = "input"
    /\ sarr' = make_heap(sarr, scomp)
    /\ sprev' = sarr
    /\ sphase' = "heap"
    /\ UNCHANGED <<scomp, slast, sorig>>
    /\ UNCHANGED notSort

\* sort_heap: while (last - first > 1) pop_heap(first, last--, comp);
sort_heap_step ==
    /\ sphase \in {"heap", "sorting"}
    /\ slast > 1
    /\ sarr' = pop_heap(sarr, slast, scomp)
    /\ sprev' = sarr
    /\ slast' = slast - 1
    /\ sphase' = "sorting"
    /\ UNCHANGED <<scomp, sorig>>
    /\ UNCHANGED notSort

\* sort_heap: the loop condition fails and the function returns.
sort_heap_return ==
    /\ sphase \in {"heap", "sorting"}
    /\ slast <= 1
    /\ sphase' = "sorted"
    /\ UNCHANGED <<sarr, scomp, slast, sorig, sprev>>
    /\ UNCHANGED notSort

SortNext ==
    \/ \E a \in SeqsUpTo(MaxHeapLen), c \in Comps : sort_input(a, c)
    \/ make_heap_call
    \/ sort_heap_step
    \/ sort_heap_return

\* -------------------------------------------------------- priority_queue.h

\* vector::push_back, vector::pop_back and vector::front.
push_back(a, v) == Append(a, v)
pop_back(a) == SubSeq(a, 1, Len(a) - 1)
front(a) == a[1]

NoPq == [name |-> "none", v |-> 0]

PqInit ==
    /\ c_ = <<>>
    /\ comp_ = "none"
    /\ pqcall = NoPq
    /\ pqbag = [k \in Keys |-> 0]
    /\ pqprev = <<>>
    /\ pqprevBag = [k \in Keys |-> 0]

\* priority_queue() and priority_queue(const Compare& c): c_(), comp_(c)
priority_queue(c) ==
    /\ comp_ = "none"
    /\ comp_' = c
    /\ UNCHANGED <<c_, pqcall, pqbag, pqprev, pqprevBag>>
    /\ UNCHANGED notPq

\* push(value): c_.push_back(value); push_heap(c_.begin(), c_.end(), comp_);
push(v) ==
    /\ comp_ # "none" /\ Len(c_) < MaxHeapLen
    /\ c_' = push_heap(push_back(c_, v), Len(c_) + 1, comp_)
    /\ pqcall' = [name |-> "push", v |-> v]
    /\ pqbag' = [pqbag EXCEPT ![v] = pqbag[v] + 1]
    /\ pqprev' = c_
    /\ pqprevBag' = pqbag
    /\ UNCHANGED comp_
    /\ UNCHANGED notPq

\* emplace(args...): c_.emplace_back(args...); push_heap(...);
emplace(v) ==
    /\ comp_ # "none" /\ Len(c_) < MaxHeapLen
    /\ c_' = push_heap(push_back(c_, v), Len(c_) + 1, comp_)
    /\ pqcall' = [name |-> "emplace", v |-> v]
    /\ pqbag' = [pqbag EXCEPT ![v] = pqbag[v] + 1]
    /\ pqprev' = c_
    /\ pqprevBag' = pqbag
    /\ UNCHANGED comp_
    /\ UNCHANGED notPq

\* top(): return c_.front(); on a non-empty queue.
top ==
    /\ comp_ # "none" /\ Len(c_) > 0
    /\ pqcall' = [name |-> "top", v |-> front(c_)]
    /\ pqprev' = c_
    /\ pqprevBag' = pqbag
    /\ UNCHANGED <<c_, comp_, pqbag>>
    /\ UNCHANGED notPq

\* pop(): pop_heap(c_.begin(), c_.end(), comp_); c_.pop_back(); the element
\* pop_back removes is recorded in pqcall.v.
pop ==
    /\ comp_ # "none" /\ Len(c_) > 0
    /\ LET b == pop_heap(c_, Len(c_), comp_)
       IN /\ c_' = pop_back(b)
          /\ pqcall' = [name |-> "pop", v |-> b[Len(b)]]
          /\ pqbag' = [pqbag EXCEPT ![b[Len(b)]] = pqbag[b[Len(b)]] - 1]
    /\ pqprev' = c_
    /\ pqprevBag' = pqbag
    /\ UNCHANGED comp_
    /\ UNCHANGED notPq

PqNext ==
    \/ \E c \in Comps : priority_queue(c)
    \/ \E v \in Keys : push(v)
    \/ \E v \in Keys : emplace(v)
    \/ top
    \/ pop


\* --------------------------------- uninitialized.h: the tag of the dispatch

NoTraits == [chosen |-> FALSE, copyAssign |-> FALSE, moveAssign |-> FALSE,
             copyCons |-> FALSE, moveCons |-> FALSE]

Traits == [chosen : {TRUE}, copyAssign : BOOLEAN, moveAssign : BOOLEAN,
           copyCons : BOOLEAN, moveCons : BOOLEAN]

TagInit ==
    /\ ttraits = NoTraits
    /\ tcall = "none"
    /\ ttag = FALSE
    /\ tpath = "none"

\* The element types of one call: the destination's value_type and the type
\* of the source elements (or of the fill value).
element_types(tr) ==
    /\ ~ttraits.chosen
    /\ ttraits' = tr
    /\ UNCHANGED <<tcall, ttag, tpath>>
    /\ UNCHANGED notTag

\* The overload a tag selects: std::true_type the flat one.
Overload(tag) == IF tag THEN "flat" ELSE "construct"

\* uninitialized_copy: std::is_trivially_copy_assignable<value_type of ForwardIter>
uninitialized_copy ==
    /\ ttraits.chosen /\ tcall = "none"
    /\ tcall' = "copy"
    /\ ttag' = ttraits.copyAssign
    /\ tpath' = Overload(ttraits.copyAssign)
    /\ UNCHANGED ttraits
    /\ UNCHANGED notTag

\* uninitialized_copy_n: std::is_trivially_copy_assignable<value_type of ForwardIter>
uninitialized_copy_n ==
    /\ ttraits.chosen /\ tcall = "none"
    /\ tcall' = "copy_n"
    /\ ttag' = ttraits.copyAssign
    /\ tpath' = Overload(ttraits.copyAssign)
    /\ UNCHANGED ttraits
    /\ UNCHANGED notTag

\* uninitialized_fill: std::is_trivially_copy_assignable<value_type of ForwardIter>
uninitialized_fill ==
    /\ ttraits.chosen /\ tcall = "none"
    /\ tcall' = "fill"
    /\ ttag' = ttraits.copyAssign
    /\ tpath' = Overload(ttraits.copyAssign)
    /\ UNCHANGED ttraits
    /\ UNCHANGED notTag

\* uninitialized_fill_n: std::is_trivially_copy_assignable<value_type of ForwardIter>
uninitialized_fill_n ==
    /\ ttraits.chosen /\ tcall = "none"
    /\ tcall' = "fill_n"
    /\ ttag' = ttraits.copyAssign
    /\ tpath' = Overload(ttraits.copyAssign)
    /\ UNCHANGED ttraits
    /\ UNCHANGED notTag

\* uninitialized_move: std::is_trivially_move_assignable<value_type of ForwardIter>
uninitialized_move ==
    /\ ttraits.chosen /\ tcall = "none"
    /\ tcall' = "move"
    /\ ttag' = ttraits.moveAssign
    /\ tpath' = Overload(ttraits.moveAssign)
    /\ UNCHANGED ttraits
    /\ UNCHANGED notTag

\* uninitialized_move_n: std::is_trivially_move_assignable<value_type of ForwardIter>
uninitialized_move_n ==
    /\ ttraits.chosen /\ tcall = "none"
    /\ tcall' = "move_n"
    /\ ttag' = ttraits.moveAssign
    /\ tpath' = Overload(ttraits.moveAssign)
    /\ UNCHANGED ttraits
    /\ UNCHANGED notTag

TagNext ==
    \/ \E tr \in Traits : element_types(tr)
    \/ uninitialized_copy
    \/ uninitialized_copy_n
    \/ uninitialized_fill
    \/ uninitialized_fill_n
    \/ uninitialized_move
    \/ uninitialized_move_n

vars == <<bulkVars, bufVars, ptrVars, allocVars, destroyVars, sortVars, pqVars,
          tagVars>>

Init ==
    /\ BulkInit /\ BufInit /\ PtrInit /\ AllocInit /\ DestroyInit
    /\ SortInit /\ PqInit /\ TagInit

BulkNext ==
    \/ \E o \in BulkOps, t \in BOOLEAN, l \in 0..MaxN, sv \in [Idx -> Vals], v \in Vals :
          Dispatch(o, t, l, sv, v)
    \/ TrivialPath
    \/ unchecked_uninit_copy_loop
    \/ unchecked_uninit_copy_catch
    \/ unchecked_uninit_copy_n_loop
    \/ unchecked_uninit_copy_n_catch
    \/ unchecked_uninit_fill_loop
    \/ unchecked_uninit_fill_catch
    \/ unchecked_uninit_fill_n_loop
    \/ unchecked_uninit_fill_n_catch
    \/ unchecked_uninit_move_loop
    \/ unchecked_uninit_move_catch
    \/ unchecked_uninit_move_n_loop
    \/ unchecked_uninit_move_n_catch
    \/ CallerDestroyDst
    \/ CallerDestroySrc

\* The bulk region algorithms.
Next == BulkNext

Spec == Init /\ [][Next]_vars

BufNext ==
    \/ \E sz \in SizeofTs : \E l \in Requests(sz) : get_temporary_buffer(sz, l)
    \/ get_buffer_helper_loop
    \/ \E sz \in SizeofTs : \E l \in Requests(sz), tdc \in BOOLEAN :
          temporary_buffer(sz, l, tdc)
    \/ allocate_buffer_loop
    \/ initialize_buffer
    \/ temporary_buffer_dtor

\* The degrading buffer.
NextBuf == BufNext

SpecBuf == Init /\ [][NextBuf]_vars

\* The exclusive-ownership handle.
NextPtr == PtrNext

SpecPtr == Init /\ [][NextPtr]_vars

\* The allocator.
NextAlloc == AllocNext

SpecAlloc == Init /\ [][NextAlloc]_vars

\* destroy on a region of slots.
NextDestroy == DestroyNext

SpecDestroy == Init /\ [][NextDestroy]_vars

\* make_heap followed by sort_heap.
NextSort == SortNext

SpecSort == Init /\ [][NextSort]_vars

\* The priority queue.
NextPq == PqNext

SpecPq == Init /\ [][NextPq]_vars

\* The choice between the flat and the per-element body.
NextTag == TagNext

SpecTag == Init /\ [][NextTag]_vars

\* ------------------------------------------------- properties: bulk algorithms

Done == {"returned", "thrown", "crashed"}

\* How often the destructor was invoked on slot p of region rng.
DestroyCount(rng, p) ==
    Cardinality({j \in 1..Len(dlog) : dlog[j] = [rng |-> rng, idx |-> p]})

\* How often a constructor completed on destination slot p.
ConstructCount(p) ==
    Cardinality({j \in 1..Len(clog) : clog[j].idx = p})

\* The rollback destroyed exactly the destination slots before the failed one.
RollbackExact ==
    \A p \in DstIdx : DestroyCount("dst", p) = (IF p < failIdx THEN 1 ELSE 0)

\* C1: when construction of destination element k fails in uninitialized_copy
\* or uninitialized_copy_n (non-trivial path), the call destroys exactly the
\* slots 0..k-1, each once, and neither slot k nor any slot past it.
C1_CopyRollbackExact ==
    (op \in {"copy", "copy_n"} /\ ~trivial /\ failed /\ pc \in Done)
        => RollbackExact

\* C2: when the k-th construction fails in uninitialized_fill or
\* uninitialized_fill_n (non-trivial path), slots [first, first+k) have been
\* destroyed exactly once each, the instance counter is back at its pre-call
\* value, and slots [first+k, first+n) are raw and were never constructed or
\* destroyed.
C2_FillRollback ==
    (op \in {"fill", "fill_n"} /\ ~trivial /\ failed /\ pc \in Done)
        => /\ RollbackExact
           /\ liveCount = cnt0
           /\ \A p \in DstIdx : dst[p] = RawSlot
           /\ \A p \in DstIdx : ConstructCount(p) = (IF p < failIdx THEN 1 ELSE 0)
           /\ ~ub

C2_Witness ==
    /\ op = "fill_n" /\ ~trivial /\ failed /\ pc = "returned"
    /\ failIdx = DstBase + 2 /\ n = 3

\* C3: when move-construction of destination element k fails in
\* uninitialized_move or uninitialized_move_n, exactly destination slots
\* 0..k-1 are destroyed, source elements 0..k-1 stay moved-from (not restored,
\* not destroyed) and source elements past k are unchanged.
C3_MoveRollback ==
    (op \in MoveOps /\ ~trivial /\ failed /\ pc \in Done)
        => /\ RollbackExact
           /\ \A i \in Idx : i < failIdx - DstBase => src[i] = MovedSlot
           /\ \A i \in Idx : i > failIdx - DstBase => src[i] = src0[i]
           /\ \A i \in Idx : DestroyCount("src", i) = 0

C3_Witness ==
    /\ op = "move" /\ ~trivial /\ failed /\ pc = "returned"
    /\ failIdx = DstBase + 1 /\ n = 3

\* C4: a bulk algorithm in which an element construction failed never returns
\* normally: it ends by re-signalling the failure to its caller.
C4_FailureResignalled ==
    (op \in BulkOps /\ ~trivial /\ failed) => pc # "returned"

\* C5: destroy is only ever applied to a slot that holds an object and
\* construct only to a slot that holds none.
C5_NoLifecycleMisuse == ~ub

\* Number of live slots of a region.
LiveSlots(region) == Cardinality({p \in DOMAIN region : region[p].st = "live"})

\* Value destination slot number i (from 0) is to be constructed from.
Expected(i) == IF op \in SrcOps THEN src0[i].val ELSE value

\* On the success path the constructions were of slots 0, 1, .., n-1 in this
\* order, slot i from source element i or the fill value, and n slots are live.
ConstructedInOrder ==
    /\ Len(clog) = n
    /\ \A j \in 1..Len(clog) :
          clog[j] = [idx |-> DstBase + (j - 1), val |-> Expected(j - 1)]
    /\ \A i \in 0..(n - 1) : dst[DstBase + i] = LiveSlot(Expected(i))
    /\ LiveSlots(dst) = n

\* C6 as stated: without a failure the non-trivial path of each of the six
\* algorithms constructs slot i from element i in increasing order, makes
\* exactly n slots live and returns the position n past the destination start.
C6_SuccessReturnsEnd ==
    (op \in BulkOps /\ ~trivial /\ ~failed /\ pc = "returned" /\ torn = {})
        => /\ ConstructedInOrder
           /\ ret = Pos(DstBase + n)

\* C6 amended: as above, but uninitialized_fill returns nothing; the other
\* five return the position n past the destination start.
C6_SuccessPath ==
    (op \in BulkOps /\ ~trivial /\ ~failed /\ pc = "returned" /\ torn = {})
        => /\ ConstructedInOrder
           /\ ret = (IF op = "fill" THEN VoidRet ELSE Pos(DstBase + n))

C6_Witness ==
    /\ op = "copy_n" /\ ~trivial /\ ~failed /\ pc = "returned" /\ torn = {}
    /\ n = 3 /\ src0[0].val # src0[1].val

\* C7: for a trivially copyable element type, uninitialized_copy_n(first, n,
\* result) leaves destination element i equal to source element i for i < n,
\* leaves the source unchanged and returns result + n; for n = 0 it writes
\* nothing.
C7_TrivialCopyN ==
    (op = "copy_n" /\ trivial /\ pc = "returned" /\ torn = {})
        => /\ \A i \in 0..(n - 1) : dst[DstBase + i] = LiveSlot(src0[i].val)
           /\ \A p \in DstIdx : p >= DstBase + n => dst[p] = RawSlot
           /\ src = src0
           /\ ret = Pos(DstBase + n)

C7_Witness ==
    /\ op = "copy_n" /\ trivial /\ pc = "returned" /\ torn = {}
    /\ n = 3 /\ src0[0].val # src0[2].val

ClampedRequest == IF request > MaxBlock(sizeofT) THEN MaxBlock(sizeofT) ELSE request

\* Element j (from 0) of the sequence L, L/2, L/4, ...
RECURSIVE Halve(_, _)
Halve(L, j) == IF j = 0 THEN L ELSE Halve(L, j - 1) \div 2

\* The buffer operation is past its shrink-and-retry loop.
Acquired ==
    \/ bop = "get_temporary_buffer" /\ bpc = "done"
    \/ bop = "temporary_buffer" /\ bpc \in {"init", "done", "gone"}

\* The granted length.
Granted == IF bop = "get_temporary_buffer" THEN bret.len ELSE len

AllFailed == \A j \in 1..Len(attempts) : ~attempts[j].ok

\* C9: the granted length is the first value of L, L/2, L/4, ... (L the
\* clamped request) at which the allocation succeeded, or 0 when it failed at
\* every positive value of the sequence; it is never negative.
C9_GrantedFirstSuccess ==
    Acquired =>
        LET k == Len(attempts) IN
        /\ \A j \in 1..k : /\ attempts[j].len = Halve(ClampedRequest, j - 1)
                           /\ attempts[j].len > 0
                           /\ attempts[j].ok => j = k
        /\ Granted >= 0
        /\ IF k > 0 /\ attempts[k].ok
           THEN Granted = attempts[k].len
           ELSE Granted = 0 /\ Halve(ClampedRequest, k) <= 0

C9_Witness ==
    /\ bop = "get_temporary_buffer" /\ bpc = "done"
    /\ request > MaxBlock(sizeofT)
    /\ Len(attempts) = 4 /\ attempts[4].ok

\* C10: an allocation failure never leaves the buffer as a failure: when
\* every attempt fails get_temporary_buffer returns (null, 0) and the
\* temporary_buffer has size() = 0, and a returned pair holds a non-null
\* pointer exactly when its length is positive.
C10_FailureAbsorbed ==
    /\ bpc \in {"idle", "loop", "init", "done", "gone"}
    /\ (bop = "get_temporary_buffer" /\ bpc = "done")
          => /\ bret.ptr \in {"null", "block"}
             /\ (bret.ptr = "block") <=> (bret.len > 0)
             /\ AllFailed => bret = pair("null", 0)
    /\ (bop = "temporary_buffer" /\ bpc \in {"done", "gone"} /\ AllFailed) => len = 0

C10_Witness ==
    /\ bop = "get_temporary_buffer" /\ bpc = "done"
    /\ request = INT_MAX /\ AllFailed /\ Len(attempts) > 3

\* floor(log2(L)) for L >= 1.
RECURSIVE Log2Floor(_)
Log2Floor(L) == IF L <= 1 THEN 0 ELSE 1 + Log2Floor(L \div 2)

\* Most allocation attempts the loop may make for a clamped request L.
MaxAttempts(L) == IF L > 0 THEN Log2Floor(L) + 1 ELSE 0

\* C11: the shrink-and-retry loop ends: each failed attempt leaves a strictly
\* smaller request, there are at most floor(log2(L)) + 1 attempts for a
\* clamped request L > 0 and none for L <= 0, and once that many attempts
\* have failed the request is 0, which ends the loop.
C11_LoopTerminates ==
    LET L == ClampedRequest
        k == Len(attempts) IN
    bop # "none" =>
        /\ k <= MaxAttempts(L)
        /\ \A j \in 1..(k - 1) : attempts[j + 1].len < attempts[j].len
        /\ (bpc = "loop" /\ k > 0) => (len < attempts[k].len /\ len >= 0)
        /\ (bpc = "loop" /\ k = MaxAttempts(L)) => len <= 0

C11_Witness ==
    /\ bop = "temporary_buffer" /\ bpc = "done" /\ AllFailed
    /\ request = INT_MAX
    /\ Len(attempts) = MaxAttempts(ClampedRequest)

\* C12: a request above INT_MAX / sizeof(T) is clamped to exactly that value
\* before the first allocation attempt, and the byte count handed to malloc
\* on any attempt is len * sizeof(T), positive and at most INT_MAX.
C12_ClampedByteCount ==
    /\ \A j \in 1..Len(attempts) :
          /\ attempts[j].len <= MaxBlock(sizeofT)
          /\ attempts[j].bytes > 0
          /\ attempts[j].bytes <= INT_MAX
          /\ attempts[j].bytes = attempts[j].len * sizeofT
    /\ (Len(attempts) > 0 /\ request > MaxBlock(sizeofT))
          => attempts[1].len = MaxBlock(sizeofT)
    /\ (Len(attempts) > 0 /\ request <= MaxBlock(sizeofT))
          => attempts[1].len = request

C12_Witness ==
    /\ bop = "get_temporary_buffer" /\ request = MaxBlock(sizeofT) + 1
    /\ Len(attempts) = 2 /\ attempts[1].bytes = MaxBlock(sizeofT) * sizeofT

\* C13: requested_size() is the length the constructor was asked for, whatever
\* the clamp, the halving and a failed initialization did, and
\* size() <= requested_size() after construction.
C13_RequestedSize ==
    (bop = "temporary_buffer" /\ bpc \in {"init", "done", "gone"})
        => /\ original_len = request
           /\ len <= original_len

C13_Witness ==
    /\ bop = "temporary_buffer" /\ bpc = "done"
    /\ request > MaxBlock(sizeofT) /\ Len(attempts) = 3
    /\ len > 0 /\ tbInitFailed

\* C14: right after construction a temporary_buffer with size() > 0 has its
\* slots in one state: all live for a T that is not trivially default
\* constructible, all raw for one that is; also when a copy construction
\* failed during the initialization.
C14_UniformSlots ==
    (bop = "temporary_buffer" /\ bpc = "done" /\ len > 0)
        => tbSlots = (IF trivDC THEN "raw" ELSE "live")

\* C15: the teardown destroys the granted slots only if the buffer made them
\* live, before it releases the block, never runs a destructor on a raw slot,
\* and releases the block exactly once.
C15_Teardown ==
    (bop = "temporary_buffer" /\ bpc = "gone")
        => /\ \A j \in 1..Len(tdLog) :
                 tdLog[j].ev = "destroy" => (tdLog[j].onRaw = 0 /\ j < Len(tdLog))
           /\ Cardinality({j \in 1..Len(tdLog) : tdLog[j].ev = "free"}) = 1
           /\ tdLog[Len(tdLog)].ev = "free"


\* ------------------------------------------------- properties: auto_ptr

\* delCount after exactly one delete of object x (none when x is nullptr).
OneMoreDelete(x) == [y \in Objs |-> prevDel[y] + (IF y = x THEN 1 ELSE 0)]

\* Positions in opLog of the events of one kind.
EventsAt(kind) == {i \in 1..Len(opLog) : opLog[i].ev = kind}

\* The last operation left every object and handle as it found them.
NothingChanged ==
    /\ m_ptr = prevPtr
    /\ ostate = prevState
    /\ delCount = prevDel
    /\ halive = prevAlive

\* C16: release() returns the reference the handle held, leaves the handle
\* empty and deletes nothing; on an empty handle it returns null and changes
\* nothing, so a second release() in a row leaves the state of the first.
C16_Release ==
    lastOp.name = "release" =>
        /\ lastOp.ret = prevPtr[lastOp.h]
        /\ m_ptr = [prevPtr EXCEPT ![lastOp.h] = 0]
        /\ ostate = prevState /\ delCount = prevDel /\ halive = prevAlive
        /\ EventsAt("delete") = {}
        /\ prevPtr[lastOp.h] = 0 => lastOp.ret = 0 /\ NothingChanged
        /\ (prevOp.name = "release" /\ prevOp.h = lastOp.h) =>
               lastOp.ret = 0 /\ NothingChanged /\ ext = prevExt

\* A handle released a live object and was then released again.
C16_Witness ==
    /\ lastOp.name = "release" /\ prevOp.name = "release"
    /\ prevOp.h = lastOp.h
    /\ prevOp.ret # 0 /\ ostate[prevOp.ret] = "live"

\* C17: copy-constructing b from a leaves a empty and b holding exactly what
\* a held, deletes no object, and gives an empty b when a was empty.
C17_CopyTransfers ==
    lastOp.name = "copy" =>
        /\ m_ptr[lastOp.a] = 0
        /\ m_ptr[lastOp.h] = prevPtr[lastOp.a]
        /\ \A h \in Handles \ {lastOp.a, lastOp.h} : m_ptr[h] = prevPtr[h]
        /\ ostate = prevState /\ delCount = prevDel
        /\ EventsAt("delete") = {}
        /\ prevPtr[lastOp.a] = 0 => m_ptr[lastOp.h] = 0

\* A handle was copy-constructed from a handle that owned a live object.
C17_Witness ==
    /\ lastOp.name = "copy"
    /\ prevPtr[lastOp.a] # 0
    /\ ostate[prevPtr[lastOp.a]] = "live"
    /\ halive[lastOp.a] /\ halive[lastOp.h]

\* C18: assigning a to a different handle b deletes what b owned exactly
\* once, before b takes over a's object, and leaves a empty; assigning a
\* handle to itself deletes nothing and the handle still owns its object.
C18_Assign ==
    lastOp.name = "assign" =>
        IF lastOp.h # lastOp.a
        THEN /\ delCount = OneMoreDelete(prevPtr[lastOp.h])
             /\ prevPtr[lastOp.h] # 0 =>
                    /\ ostate[prevPtr[lastOp.h]] = "deleted"
                    /\ \E i \in EventsAt("delete") : opLog[i].obj = prevPtr[lastOp.h]
             /\ \A i \in EventsAt("delete"), j \in EventsAt("take") : i < j
             /\ m_ptr[lastOp.h] = prevPtr[lastOp.a]
             /\ m_ptr[lastOp.a] = 0
             /\ \A h \in Handles \ {lastOp.a, lastOp.h} : m_ptr[h] = prevPtr[h]
        ELSE /\ NothingChanged
             /\ m_ptr[lastOp.h] # 0 => ostate[m_ptr[lastOp.h]] = "live"

\* A handle that owns a live object was assigned to itself right after an
\* assignment between two different handles that deleted an object.
C18_Witness ==
    /\ lastOp.name = "assign" /\ lastOp.h = lastOp.a
    /\ m_ptr[lastOp.h] # 0
    /\ prevOp.name = "assign" /\ prevOp.h # prevOp.a
    /\ \E x \in Objs : delCount[x] = 1

\* C19: reset(p) with p different from the held reference deletes the held
\* object exactly once and makes the handle own p; reset(p) with the held
\* reference deletes nothing, so reset(p) twice in a row leaves exactly one
\* instance alive, owned by the handle.
C19_Reset ==
    lastOp.name = "reset" =>
        /\ IF lastOp.p # prevPtr[lastOp.h]
           THEN /\ delCount = OneMoreDelete(prevPtr[lastOp.h])
                /\ prevPtr[lastOp.h] # 0 => ostate[prevPtr[lastOp.h]] = "deleted"
                /\ m_ptr = [prevPtr EXCEPT ![lastOp.h] = lastOp.p]
           ELSE NothingChanged
        /\ lastOp.p # 0 => ostate[lastOp.p] = "live" /\ delCount[lastOp.p] = 0
        /\ (prevOp.name = "reset" /\ prevOp.h = lastOp.h /\ prevOp.p = lastOp.p) =>
               /\ NothingChanged
               /\ m_ptr[lastOp.h] = lastOp.p

\* reset(p) ran twice in a row on one handle with the same non-null p.
C19_Witness ==
    /\ lastOp.name = "reset" /\ prevOp.name = "reset"
    /\ prevOp.h = lastOp.h /\ prevOp.p = lastOp.p
    /\ lastOp.p # 0

\* C20: when every object enters the handles from outside only as a fresh or
\* released reference, at most one live handle references any object, and a
\* reference handed out by release() is held by no live handle.
C20_ExclusiveOwnership ==
    /\ \A h1 \in Handles, h2 \in Handles :
           (h1 # h2 /\ halive[h1] /\ halive[h2] /\ m_ptr[h1] # 0) =>
               m_ptr[h1] # m_ptr[h2]
    /\ \A h \in Handles : halive[h] => m_ptr[h] \notin ext

\* Every handle is live and a live object has just moved from one handle to
\* another, while a second object is live as well.
C20_Witness ==
    /\ \A h \in Handles : halive[h]
    /\ lastOp.name \in {"copy", "assign"} /\ lastOp.h # lastOp.a
    /\ prevPtr[lastOp.a] # 0 /\ m_ptr[lastOp.h] = prevPtr[lastOp.a]
    /\ Cardinality({x \in Objs : ostate[x] = "live"}) >= 2


\* C21: no object is deleted more than once; destroying a handle deletes the
\* object it still holds, and destroying an empty handle deletes nothing.
C21_DeletedOnce ==
    /\ \A x \in Objs : delCount[x] <= 1
    /\ \A x \in Objs : (delCount[x] = 1) <=> (ostate[x] = "deleted")
    /\ lastOp.name = "dtor" =>
           /\ ~halive[lastOp.h]
           /\ delCount = OneMoreDelete(prevPtr[lastOp.h])
           /\ prevPtr[lastOp.h] # 0 => ostate[prevPtr[lastOp.h]] = "deleted"
           /\ prevPtr[lastOp.h] = 0 => ostate = prevState /\ EventsAt("delete") = {}

\* A handle was destroyed while holding an object it had received from
\* another handle, after some other object had already been deleted.
C21_Witness ==
    /\ lastOp.name = "dtor" /\ prevPtr[lastOp.h] # 0
    /\ prevOp.name \in {"copy", "assign"} /\ prevOp.h = lastOp.h /\ prevOp.a # lastOp.h
    /\ \A x \in Objs : delCount[x] = 1


\* ------------------------------------------------ properties: allocator

\* The primitives of one kind among those the last allocator call invoked.
PrimsOf(kind) == {i \in 1..Len(aprims) : aprims[i].prim = kind}

\* C22: allocate(0) returns null without calling operator new and without
\* an error; deallocate(null) does not call operator delete; allocate and
\* deallocate never construct or destroy an object.
C22_NullCases ==
    /\ (acall.name = "allocate" /\ IsZero(acall.n)) =>
           aret = NullBlock /\ aprims = <<>>
    /\ (acall.name = "deallocate" /\ acall.ptr = NullBlock) => aprims = <<>>
    /\ acall.name \in {"allocate", "deallocate"} =>
           PrimsOf("construct") = {} /\ PrimsOf("destroy") = {}

\* deallocate(nullptr) ran while a block holding a live object was allocated,
\* and that object is still live.
C22_Witness ==
    /\ acall.name = "deallocate" /\ acall.ptr = NullBlock
    /\ \E k \in Blocks : ablock[k].used /\ ablock[k].live

\* C29: when allocate(n) with n > 0 returns a block, the byte size it asked
\* operator new for is the product n * sizeof(T) in the integers, never that
\* product reduced modulo 2^w.
C29_ExactByteSize ==
    (acall.name = "allocate" /\ ~IsZero(acall.n) /\ aret.kind = "block") =>
        /\ Len(aprims) = 1 /\ aprims[1].prim = "new"
        /\ aprims[1].bytes \o <<0>> = MulExact(acall.n, asize)


\* -------------------------------------------------- properties: destroy

\* C23: for a type that is not trivially destructible destroy(first, last)
\* runs the destructor on every slot of [first, last) exactly once, in
\* increasing position order, and on no slot outside; an empty range
\* destroys nothing.
C23_DestroyRange ==
    (dcall.name = "destroy_range" /\ dtype = "nontrivial") =>
        /\ Len(ddtor) = dcall.l - dcall.f
        /\ \A j \in 1..Len(ddtor) : ddtor[j] = dcall.f + j - 1
        /\ \A i \in Idx :
               IF dcall.f <= i /\ i < dcall.l
               THEN IsObject(dprevSlots[i]) /\ dslots[i] = RawSlot
               ELSE dslots[i] = dprevSlots[i]
        /\ dcall.f = dcall.l => ddtor = <<>> /\ dslots = dprevSlots

\* destroy(first, last) ran on two or more live slots in the middle of a
\* region whose other slots hold objects too.
C23_Witness ==
    /\ dcall.name = "destroy_range" /\ dtype = "nontrivial"
    /\ dcall.l - dcall.f >= 2 /\ dcall.l < MaxN
    /\ \E i \in Idx : i >= dcall.l /\ IsObject(dslots[i])

\* C24: for a trivially destructible type destroy(slot) and
\* destroy(first, last) run no destructor and change no slot, so a second
\* destroy of the same slot leaves the state as it was.
C24_TrivialDestroy ==
    (dtype = "trivial" /\ dcall.name \in {"destroy", "destroy_range"}) =>
        /\ ddtor = <<>>
        /\ dslots = dprevSlots

\* A slot of a trivially destructible type that holds a value was destroyed
\* twice in a row, the second time as part of a range.
C24_Witness ==
    /\ dtype = "trivial"
    /\ dprevCall.name = "destroy" /\ dcall.name = "destroy_range"
    /\ dcall.f <= dprevCall.f /\ dprevCall.f < dcall.l
    /\ IsObject(dslots[dprevCall.f])


\* ------------------------------------- properties: heap and priority queue

\* How often key k occurs among the first ln elements of a.
Occurs(a, ln, k) == Cardinality({i \in 1..ln : a[i] = k})

\* The first ln elements of a and of b hold the same keys equally often.
SameKeys(a, b, ln) == \A k \in Keys : Occurs(a, ln, k) = Occurs(b, ln, k)

\* The first ln elements of a form a heap: no element exceeds its parent.
IsHeap(a, ln, c) ==
    \A i \in 1..(ln - 1) : ~Comp(c, At(a, (i - 1) \div 2), At(a, i))

\* a is in ascending order with respect to the comparison.
IsSorted(a, c) ==
    \A i \in 1..Len(a), j \in 1..Len(a) : i < j => ~Comp(c, a[j], a[i])

\* C25: make_heap followed by sort_heap leaves the range sorted in ascending
\* order of the comparison and a permutation of its original contents; each
\* pop_heap step of sort_heap moves the maximum of the heap to the last
\* position of the shrinking range and leaves the prefix a heap.
C25_HeapSort ==
    /\ sphase \in {"heap", "sorting", "sorted"} =>
           /\ Len(sarr) = Len(sorig)
           /\ SameKeys(sarr, sorig, Len(sorig))
           /\ IsHeap(sarr, slast, scomp)
    /\ sphase = "sorting" =>
           /\ sarr[slast + 1] = sprev[1]
           /\ \A i \in 1..(slast + 1) : ~Comp(scomp, sarr[slast + 1], sprev[i])
           /\ \A i \in (slast + 2)..Len(sarr) : sarr[i] = sprev[i]
           /\ SameKeys(sarr, sprev, slast + 1)
    /\ sphase = "sorted" => IsSorted(sarr, scomp)

\* sort_heap returned on a range of MaxHeapLen elements that was not sorted,
\* holds three different keys, and whose heap was not the input order.
C25_Witness ==
    /\ sphase = "sorted" /\ Len(sarr) = MaxHeapLen
    /\ ~IsSorted(sorig, scomp)
    /\ Cardinality({sarr[i] : i \in 1..Len(sarr)}) >= 3
    /\ sarr # sorig

\* C30: after any pushes, emplaces and pops the container is a heap for the
\* comparison object, holds the pushed elements minus the popped ones, top()
\* returns an element no stored element exceeds, and pop removes exactly the
\* element top() returned.
C30_PriorityQueue ==
    comp_ # "none" =>
        /\ IsHeap(c_, Len(c_), comp_)
        /\ \A k \in Keys : Occurs(c_, Len(c_), k) = pqbag[k]
        /\ \A i \in 1..Len(c_) : ~Comp(comp_, front(c_), c_[i])
        /\ pqcall.name = "top" =>
               /\ c_ = pqprev
               /\ \A i \in 1..Len(c_) : ~Comp(comp_, pqcall.v, c_[i])
        /\ pqcall.name = "pop" =>
               /\ pqcall.v = front(pqprev)
               /\ Len(c_) = Len(pqprev) - 1
               /\ pqbag = [pqprevBag EXCEPT ![front(pqprev)] = pqprevBag[front(pqprev)] - 1]
        /\ pqcall.name \in {"push", "emplace"} =>
               /\ Len(c_) = Len(pqprev) + 1
               /\ pqbag = [pqprevBag EXCEPT ![pqcall.v] = pqprevBag[pqcall.v] + 1]

\* pop ran on a queue of MaxHeapLen elements with three different keys and
\* left a queue whose top is smaller than the element removed.
C30_Witness ==
    /\ pqcall.name = "pop" /\ Len(pqprev) = MaxHeapLen
    /\ Cardinality({pqprev[i] : i \in 1..Len(pqprev)}) >= 3
    /\ front(c_) # pqcall.v


\* ---------------------------------------- properties: bulk algorithms, again

\* C26: when a bulk algorithm returns a position p normally, every
\* destination slot in [result, p) is live; it never returns a position past
\* slots it destroyed during rollback.
C26_ReturnedRangeLive ==
    (op \in BulkOps /\ pc = "returned" /\ ret.kind = "pos" /\ torn = {})
        => \A q \in DstIdx : q < ret.pos => dst[q].st = "live"


\* ------------------------------------------ properties: the buffer, again

\* C27: a temporary_buffer whose granted length is 0 holds no block: its
\* begin() and end() are null, and its teardown hands nothing but the null
\* pointer to free, never an indeterminate one.
C27_EmptyHoldsNoBlock ==
    (bop = "temporary_buffer" /\ bpc \in {"done", "gone"} /\ len = 0) =>
        /\ buffer = "null"
        /\ \A j \in 1..Len(tdLog) : tdLog[j].ev = "free" => tdLog[j].ptr = "null"


\* ------------------------------------------- properties: the dispatch tag

\* C28: a bulk algorithm takes its flat path only when constructing the
\* destination element from the source is trivial; a destination type whose
\* assignment is trivial but whose construction is not takes the
\* per-element construct path.
C28_FlatOnlyIfTrivialConstruction ==
    (tcall # "none" /\ tpath = "flat") =>
        IF tcall \in MoveOps THEN ttraits.moveCons ELSE ttraits.copyCons

====
